---- MODULE Spec2Model ----
(***************************************************************************)
(* Model of the free/busy interval engine of coffee_chat                   *)
(* (src/coffee_chat/src/calendar/free_busy.rs), of the slot search         *)
(* (src/coffee_chat/src/calendar/mod.rs) and of the application            *)
(* (src/coffee_chat/src/app.rs): its calendar part, the startup loader and *)
(* the sending of invitations.                                             *)
(*                                                                         *)
(* Instants are integers: one unit is one hour on the UTC timeline.        *)
(* An Option<DateTime> is a sequence of length 0 (None) or 1 (Some).       *)
(* An interval (start, end) is a pair <<start, end>>.                      *)
(***************************************************************************)
EXTENDS Integers, Sequences, FiniteSets, TLC

VARIABLES
    pc,            \* position of the function under execution
    busy,          \* find_free_windows: argument busy
    window_start,  \* find_free_windows: argument window_start
    window_end,    \* find_free_windows: argument window_end
    buffer,        \* find_free_windows: argument buffer
    periods,       \* find_free_windows: local periods (sorted copy of busy)
    idx,           \* find_free_windows: position of the for loop in periods
    cursor,        \* find_free_windows: local cursor
    windows,       \* find_free_windows: local windows (the result)
    zone,          \* the process's local time zone (chrono::Local)
    raw_windows,   \* split_at_midnight: argument windows
    win_i,         \* split_at_midnight: position of the for loop in windows
    cur_start,     \* split_at_midnight: local cur_start
    cur_date,      \* split_at_midnight: local cur_date
    end_date,      \* split_at_midnight: local end_date
    out,           \* split_at_midnight: local out (the result)
    slots,         \* filter_slots_by_time_of_day: argument slots
    start_hour,    \* filter_slots_by_time_of_day: argument start_hour
    end_hour,      \* filter_slots_by_time_of_day: argument end_hour
    slot_i,        \* filter_slots_by_time_of_day: position of the for loop in slots
    filtered,      \* filter_slots_by_time_of_day: local filtered (the result)
    sum_slots,     \* summarize_slots: argument slots
    min_len,       \* summarize_slots: argument min_len, in minutes
    by_day,        \* summarize_slots: local by_day, as the list of its (day, slots) in key order
    day_i,         \* summarize_slots: position of the second for loop in by_day
    merged,        \* summarize_slots: the merged intervals pushed so far, over all days
    summary,       \* summarize_slots: local out (the result), one entry per merged interval
    calendar_hub,            \* MyApp: calendar_hub.is_some()
    is_connecting_calendar,  \* MyApp: is_connecting_calendar
    is_fetching_slots,       \* MyApp: is_fetching_slots
    available_slots,         \* MyApp: available_slots
    status_message,          \* MyApp: status_message, as the tuple of its parts
    calendar_buffer_minutes, \* MyApp: calendar_buffer_minutes
    day_start_hour,          \* MyApp: day_start_hour
    day_end_hour,            \* MyApp: day_end_hour
    state_loaded_from_file,  \* MyApp: state_loaded_from_file
    receiver,                \* MyApp: the messages sent and not yet received
    connect_tasks,           \* the number of running calendar connection tasks
    fetch_tasks,             \* the slot fetching tasks spawned so far, finished ones included
    ui_events,               \* the number of clicks and edits so far
    smtp_host,               \* MyApp: smtp_host
    smtp_port_str,           \* MyApp: smtp_port_str
    smtp_user,               \* MyApp: smtp_user
    smtp_password,           \* MyApp: smtp_password
    from_email,              \* MyApp: from_email
    sender_name,             \* MyApp: sender_name
    template_path,           \* MyApp: template_path
    email_subject,           \* MyApp: email_subject
    email_body,              \* MyApp: email_body
    recipients,              \* MyApp: recipients
    is_sending_email,        \* MyApp: is_sending_email
    config_loaded,           \* MyApp: config_loaded
    template_loaded,         \* MyApp: template_loaded
    loader,                  \* the startup loader thread: its position
    send_tasks               \* the email sending tasks spawned so far, finished ones included

freeVars == <<busy, window_start, window_end, buffer, periods, idx, cursor, windows>>
splitVars == <<raw_windows, win_i, cur_start, cur_date, end_date, out>>
filterVars == <<slots, start_hour, end_hour, slot_i, filtered>>
sumVars == <<sum_slots, min_len, by_day, day_i, merged, summary>>
appVars == <<calendar_hub, is_connecting_calendar, is_fetching_slots, available_slots,
             status_message, calendar_buffer_minutes, day_start_hour, day_end_hour,
             state_loaded_from_file, receiver, connect_tasks, fetch_tasks, ui_events,
             smtp_host, smtp_port_str, smtp_user, smtp_password, from_email, sender_name,
             template_path, email_subject, email_body, recipients, is_sending_email,
             config_loaded, template_loaded, loader, send_tasks>>
vars == <<pc, zone, freeVars, splitVars, filterVars, sumVars, appVars>>

----------------------------------------------------------------------------
(* Bounds of the model *)

MaxTime == 4       \* busy bounds and window bounds range over 0..MaxTime
MaxBusy == 2       \* longest busy list
MaxBuffer == 1     \* the buffer is 0 or MaxBuffer
MaxDay == 2        \* interval bounds for the splitter and the filter lie in UTC days 0..MaxDay
MaxWindows == 2    \* longest interval list given to split_at_midnight
MaxSlots == 1      \* longest interval list given to filter_slots_by_time_of_day
MaxSummary == 2    \* longest interval list given to summarize_slots
MaxFetched == 1    \* longest busy list the calendar service returns to a slot search
MaxUiEvents == 2   \* clicks and edits in one run of the application

HoursPerDay == 24
MinutesPerHour == 60
DaysPerWeek == 7

----------------------------------------------------------------------------
(* Values *)

None == <<>>
Some(x) == <<x>>
IsSome(o) == Len(o) = 1
Unwrap(o) == o[1]

Max(a, b) == IF a >= b THEN a ELSE b
Min(a, b) == IF a <= b THEN a ELSE b

SeqsUpTo(S, n) == UNION {[1..len -> S] : len \in 0..n}

Times == 0..MaxTime
Buffers == {0, MaxBuffer}
WindowStarts == 0..1

\* Busy periods with both bounds: the start never follows the end.
CompletePeriods ==
    UNION {{[start |-> Some(a), end |-> Some(b)] : b \in a..MaxTime} : a \in Times}

\* Busy periods with a missing bound; the bound that is present is 1 or 2.
PartialPeriods ==
    {[start |-> None, end |-> None]}
    \cup {[start |-> None, end |-> Some(t)] : t \in 1..2}
    \cup {[start |-> Some(t), end |-> None] : t \in 1..2}

TimePeriods == CompletePeriods \cup PartialPeriods

\* Instants used as interval bounds: around the local midnights of the zones.
DayHours == {0, 5, 6, 15}
Instants == {d * HoursPerDay + h : d \in 0..MaxDay, h \in DayHours}
Intervals == {<<s, e>> : s \in Instants, e \in Instants} \ {iv \in Instants \X Instants : iv[1] >= iv[2]}

\* Lists of at most n intervals, each with start < end, sorted and pairwise
\* non-overlapping, none starting before `from`: the shape of every list
\* find_free_windows returns.
RECURSIVE IntervalLists(_, _)
IntervalLists(n, from) ==
    IF n = 0 THEN {<<>>}
    ELSE {<<>>} \cup
         UNION {{<<iv>> \o r : r \in IntervalLists(n - 1, iv[2])} :
                    iv \in {x \in Intervals : x[1] >= from}}

\* Interval bounds for summarize_slots: around the local midnights that start
\* local day 1 (UTC 24 in UTC, UTC 29 in the zones five hours behind).
SumInstants == {23, 24, 25, 28, 29, 30}
SumIntervals == {iv \in SumInstants \X SumInstants : iv[1] < iv[2]}

\* Argument min_len, in minutes.
MinLens == {30, 120}

\* Arguments start_hour and end_hour (u32), valid and invalid ones.
HourChoices == {0, 2, 9, 17, 24}

----------------------------------------------------------------------------
(* chrono::Local: the local time zone of the process.                      *)
(* A zone has a standard UTC offset `std` and at most one transition: from *)
(* the instant `at` on, the offset is std + shift.                         *)

UtcOffset(z, t) == z.std + (IF t >= z.at THEN z.shift ELSE 0)

\* dt.with_timezone(&Local): the naive local date-time of an instant.
LocalNaive(z, t) == t + UtcOffset(z, t)

\* dt.with_timezone(&Local).date_naive()
DateNaive(z, t) == LocalNaive(z, t) \div HoursPerDay

\* Local.from_local_datetime(&n): the instants whose local date-time is n
\* (LocalResult::None, Single or Ambiguous).
FromLocal(z, n) == {t \in {n - z.std, n - z.std - z.shift} : LocalNaive(z, t) = n}

SetMin(S) == CHOOSE x \in S : \A y \in S : x <= y

\* LocalResult::single()
Single(z, n) ==
    IF Cardinality(FromLocal(z, n)) = 1 THEN Some(SetMin(FromLocal(z, n))) ELSE None

\* LocalResult::earliest()
Earliest(z, n) ==
    IF FromLocal(z, n) = {} THEN None ELSE Some(SetMin(FromLocal(z, n)))

\* The zones of the model; transitions happen around the local midnight that
\* starts local day 1.
\*   fixed offsets UTC and UTC-5;
\*   clocks forward 00:00 -> 01:00 (local midnight does not exist);
\*   clocks back 01:00 -> 00:00 (local midnight happens twice);
\*   clocks forward 02:00 -> 03:00 and back 02:00 -> 01:00.
Zones ==
    {[std |-> 0, at |-> 0, shift |-> 0],
     [std |-> -5, at |-> 0, shift |-> 0],
     [std |-> -5, at |-> HoursPerDay + 5, shift |-> 1],
     [std |-> -5, at |-> HoursPerDay + 1 + 5, shift |-> -1],
     [std |-> -5, at |-> HoursPerDay + 2 + 5, shift |-> 1],
     [std |-> -5, at |-> HoursPerDay + 2 + 5, shift |-> -1]}

----------------------------------------------------------------------------
(* find_free_windows *)

\* Ord of Option<DateTime>: None sorts before every Some.
KeyLess(a, b) ==
    IF ~IsSome(b) THEN FALSE
    ELSE IF ~IsSome(a) THEN TRUE
    ELSE Unwrap(a) < Unwrap(b)

RECURSIVE InsertByStart(_, _)
InsertByStart(s, p) ==
    IF s = <<>> THEN <<p>>
    ELSE IF KeyLess(p.start, Head(s).start) THEN <<p>> \o s
    ELSE <<Head(s)>> \o InsertByStart(Tail(s), p)

RECURSIVE StableSortByStart(_)
StableSortByStart(s) ==
    IF s = <<>> THEN <<>>
    ELSE InsertByStart(StableSortByStart(SubSeq(s, 1, Len(s) - 1)), s[Len(s)])

\* Mutant: the sort is left out.
SortedPeriodsUnsorted(b) == b

\* periods.sort_by_key(|p| p.start)
SortedPeriods(b) == StableSortByStart(b)

\* Mutant: a missing end is replaced by the start instead of skipping the period.
PeriodBoundsEndDefaulted(p) ==
    IF ~IsSome(p.start) THEN None
    ELSE Some(<<Unwrap(p.start), IF IsSome(p.end) THEN Unwrap(p.end) ELSE Unwrap(p.start)>>)

\* The two matches on p.start and p.end: None means `continue`.
PeriodBounds(p) ==
    IF ~IsSome(p.start) THEN None
    ELSE IF ~IsSome(p.end) THEN None
    ELSE Some(<<Unwrap(p.start), Unwrap(p.end)>>)

\* Mutant: the buffer before the busy period is forgotten.
BlockedStartNoBuffer(busy_start, buf) == busy_start

\* blocked_start and blocked_end
BlockedStart(busy_start, buf) == busy_start - buf
BlockedEnd(busy_end, buf) == busy_end + buf

\* Mutant: >= instead of >.
PushGapGeq(wins, cur, blocked_start) ==
    IF blocked_start >= cur THEN Append(wins, <<cur, blocked_start>>) ELSE wins

\* if blocked_start > cursor { windows.push((cursor, blocked_start)) }
PushGap(wins, cur, blocked_start) ==
    IF blocked_start > cur THEN Append(wins, <<cur, blocked_start>>) ELSE wins

\* Mutant: min instead of max.
AdvanceCursorMin(cur, blocked_end) == Min(cur, blocked_end)

\* cursor = cursor.max(blocked_end)
AdvanceCursor(cur, blocked_end) == Max(cur, blocked_end)

\* One iteration of `for p in periods`; stop is the `break`.
SweepBody(st, p, w_end, buf) ==
    LET b == PeriodBounds(p) IN
    IF ~IsSome(b) THEN st
    ELSE LET blocked_start == BlockedStart(Unwrap(b)[1], buf)
             blocked_end == BlockedEnd(Unwrap(b)[2], buf)
             c == AdvanceCursor(st.cursor, blocked_end)
         IN  [cursor |-> c,
              windows |-> PushGap(st.windows, st.cursor, blocked_start),
              stop |-> c >= w_end]

\* Mutant: the trailing window is forgotten.
PushTailNever(wins, cur, w_end) == wins

\* if window_end > cursor { windows.push((cursor, window_end)) }
PushTail(wins, cur, w_end) ==
    IF w_end > cur THEN Append(wins, <<cur, w_end>>) ELSE wins

RECURSIVE SweepAll(_, _, _, _)
SweepAll(st, ps, w_end, buf) ==
    IF ps = <<>> \/ st.stop THEN st
    ELSE SweepAll(SweepBody(st, Head(ps), w_end, buf), Tail(ps), w_end, buf)

\* The function as a whole.
find_free_windows(b, w_start, w_end, buf) ==
    LET st == SweepAll([cursor |-> w_start, windows |-> <<>>, stop |-> FALSE],
                       SortedPeriods(b), w_end, buf)
    IN  PushTail(st.windows, st.cursor, w_end)

----------------------------------------------------------------------------
(* split_at_midnight *)

\* cur_date.succ_opt().unwrap().and_hms_opt(0, 0, 0).unwrap()
NextMidnightNaive(date) == (date + 1) * HoursPerDay

\* Mutant: an ambiguous midnight resolves to its latest instant.
ResolveMidnightLatest(z, nm_naive) ==
    IF FromLocal(z, nm_naive) = {} THEN None
    ELSE Some(CHOOSE x \in FromLocal(z, nm_naive) : \A y \in FromLocal(z, nm_naive) : x >= y)

\* nm_utc: single(), else earliest(), else None (the `break` after error!).
ResolveMidnight(z, nm_naive) ==
    IF IsSome(Single(z, nm_naive)) THEN Single(z, nm_naive)
    ELSE Earliest(z, nm_naive)

\* Mutant: the loop is not left when the midnight is at or after the end.
SplitPointNoEndBreak(z, date, e_utc) == ResolveMidnight(z, NextMidnightNaive(date))

\* The body of `while cur_date < end_date`: the next split point, or None
\* when the loop is left by one of its two `break`s.
SplitPoint(z, date, e_utc) ==
    LET nm_utc == ResolveMidnight(z, NextMidnightNaive(date)) IN
    IF ~IsSome(nm_utc) THEN None
    ELSE IF Unwrap(nm_utc) >= e_utc THEN None
    ELSE nm_utc

\* Mutant: the final segment starts at the window's start, not at cur_start.
PushFinalFromWindowStart(o, s_utc, start, e_utc) ==
    IF e_utc > start THEN Append(o, <<s_utc, e_utc>>) ELSE o

\* if e_utc > cur_start { out.push((cur_start, e_utc)) }
PushFinal(o, s_utc, start, e_utc) ==
    IF e_utc > start THEN Append(o, <<start, e_utc>>) ELSE o

\* The while loop and the final push for one window, from (start, date) on.
RECURSIVE SplitFrom(_, _, _, _, _, _)
SplitFrom(z, o, s_utc, e_utc, start, date) ==
    IF date < DateNaive(z, e_utc) /\ IsSome(SplitPoint(z, date, e_utc))
    THEN LET nm_utc == Unwrap(SplitPoint(z, date, e_utc)) IN
         SplitFrom(z, Append(o, <<start, nm_utc>>), s_utc, e_utc, nm_utc, DateNaive(z, nm_utc))
    ELSE PushFinal(o, s_utc, start, e_utc)

RECURSIVE SplitList(_, _, _)
SplitList(z, o, ws) ==
    IF ws = <<>> THEN o
    ELSE SplitList(z, SplitFrom(z, o, Head(ws)[1], Head(ws)[2], Head(ws)[1],
                                DateNaive(z, Head(ws)[1])), Tail(ws))

\* The function as a whole.
split_at_midnight(z, ws) == SplitList(z, <<>>, ws)

----------------------------------------------------------------------------
(* filter_slots_by_time_of_day *)

\* Mutant: only the order of the two hours is tested.
InvalidHoursOrderOnly(sh, eh) == sh >= eh

\* if start_hour >= end_hour || start_hour > 23 || end_hour > 23
InvalidHours(sh, eh) == sh >= eh \/ sh > 23 \/ eh > 23

\* Local.from_local_datetime(&slot_date.and_time(t)).single().unwrap_or_else(|| fallback)
ValidBound(z, date, hour, fallback) ==
    LET r == Single(z, date * HoursPerDay + hour) IN
    IF IsSome(r) THEN Unwrap(r) ELSE fallback

\* One iteration of `for &(slot_start_utc, slot_end_utc) in slots`.
FilterSlot(z, f, slot, sh, eh) ==
    LET slot_date == DateNaive(z, slot[1])
        valid_start == ValidBound(z, slot_date, sh, slot[1])
        valid_end0 == ValidBound(z, slot_date, eh, slot[2])
        valid_end == IF valid_end0 <= valid_start THEN valid_end0 + HoursPerDay
                     ELSE valid_end0
        effective_start == Max(slot[1], valid_start)
        effective_end == Min(slot[2], valid_end)
    IN  IF effective_start < effective_end
        THEN Append(f, <<effective_start, effective_end>>)
        ELSE f

RECURSIVE FilterList(_, _, _, _, _)
FilterList(z, f, ss, sh, eh) ==
    IF ss = <<>> THEN f
    ELSE FilterList(z, FilterSlot(z, f, Head(ss), sh, eh), Tail(ss), sh, eh)

\* The function as a whole.
filter_slots_by_time_of_day(z, ss, sh, eh) ==
    IF InvalidHours(sh, eh) THEN ss ELSE FilterList(z, <<>>, ss, sh, eh)

----------------------------------------------------------------------------
(* summarize_slots *)

\* The keys of by_day in BTreeMap order.
RECURSIVE SortedDays(_)
SortedDays(D) ==
    IF D = {} THEN <<>>
    ELSE LET d == SetMin(D) IN <<d>> \o SortedDays(D \ {d})

\* Mutant: all slots fall into the group of the first slot's date.
GroupByDayOneGroup(z, ss) ==
    IF ss = <<>> THEN <<>>
    ELSE <<[day |-> DateNaive(z, ss[1][1]), slots |-> ss]>>

\* by_day after the first for loop: each local date of a start, ascending,
\* with the slots starting on it in the order of the argument.
GroupByDay(z, ss) ==
    LET days == SortedDays({DateNaive(z, ss[a][1]) : a \in DOMAIN ss})
        OnDay(d) == SelectSeq(ss, LAMBDA iv : DateNaive(z, iv[1]) = d)
    IN  [a \in DOMAIN days |-> [day |-> days[a], slots |-> OnDay(days[a])]]

RECURSIVE InsertSlot(_, _)
InsertSlot(s, iv) ==
    IF s = <<>> THEN <<iv>>
    ELSE IF iv[1] < Head(s)[1] THEN <<iv>> \o s
    ELSE <<Head(s)>> \o InsertSlot(Tail(s), iv)

\* Mutant: the slots of a day stay in the order of the argument.
SortDayUnsorted(day_slots) == day_slots

\* day_slots.sort_by_key(|(s, _)| *s): a stable sort on the start.
RECURSIVE SortDay(_)
SortDay(day_slots) ==
    IF day_slots = <<>> THEN <<>>
    ELSE InsertSlot(SortDay(SubSeq(day_slots, 1, Len(day_slots) - 1)),
                    day_slots[Len(day_slots)])

\* Mutant: no slot continues the current run.
ContiguousNever(s, ce) == FALSE

\* if s == ce
Contiguous(s, ce) == s = ce

\* Mutant: every run is long enough.
LongEnoughAlways(cs, ce, len) == TRUE

\* ce - cs >= min_len
LongEnough(cs, ce, len) == (ce - cs) * MinutesPerHour >= len

\* if ce - cs >= min_len { merged.push((cs, ce)) }
PushIfLong(m, cs, ce, len) ==
    IF LongEnough(cs, ce, len) THEN Append(m, <<cs, ce>>) ELSE m

\* Mutant: a slot continues the run only if it is long enough by itself.
MergeStepPiecewise(st, iv, len) ==
    IF Contiguous(iv[1], st.ce) /\ LongEnough(iv[1], iv[2], len)
    THEN [st EXCEPT !.ce = iv[2]]
    ELSE [m |-> PushIfLong(st.m, st.cs, st.ce, len), cs |-> iv[1], ce |-> iv[2]]

\* The body of `for (s, e) in iter`.
MergeStep(st, iv, len) ==
    IF Contiguous(iv[1], st.ce) THEN [st EXCEPT !.ce = iv[2]]
    ELSE [m |-> PushIfLong(st.m, st.cs, st.ce, len), cs |-> iv[1], ce |-> iv[2]]

RECURSIVE MergeRun(_, _, _)
MergeRun(st, rest, len) ==
    IF rest = <<>> THEN st
    ELSE MergeRun(MergeStep(st, Head(rest), len), Tail(rest), len)

\* `merged` for one day, from its sorted slots.
MergeDay(day_slots, len) ==
    IF day_slots = <<>> THEN <<>>
    ELSE LET st == MergeRun([m |-> <<>>, cs |-> Head(day_slots)[1], ce |-> Head(day_slots)[2]],
                            Tail(day_slots), len)
         IN  PushIfLong(st.m, st.cs, st.ce, len)

\* fmt_time: the hour on the 12-hour clock with am/pm.
FmtTime(n) ==
    LET h == n % HoursPerDay
        h12 == IF h % 12 = 0 THEN 12 ELSE h % 12
    IN  <<h12, IF h < 12 THEN "am" ELSE "pm">>

\* format("%A") and format("%b %-d"): the weekday and the date without year.
FmtDay(n) == <<(n \div HoursPerDay) % DaysPerWeek, n \div HoursPerDay>>

\* The entry for one merged interval; the end's day is named only when it
\* differs from the start's.
FormatWindow(z, iv) ==
    LET s_loc == LocalNaive(z, iv[1])
        e_loc == LocalNaive(z, iv[2])
    IN  IF s_loc \div HoursPerDay # e_loc \div HoursPerDay
        THEN <<FmtDay(s_loc), FmtTime(s_loc), FmtDay(e_loc), FmtTime(e_loc)>>
        ELSE <<FmtDay(s_loc), FmtTime(s_loc), FmtTime(e_loc)>>

FormatAll(z, m) == [a \in DOMAIN m |-> FormatWindow(z, m[a])]

\* The merged intervals of all days, in the order they are formatted.
RECURSIVE MergedFrom(_, _, _)
MergedFrom(groups, a, len) ==
    IF a > Len(groups) THEN <<>>
    ELSE MergeDay(SortDay(groups[a].slots), len) \o MergedFrom(groups, a + 1, len)

MergedIntervals(z, ss, len) == MergedFrom(GroupByDay(z, ss), 1, len)

\* The function as a whole.
summarize_slots(z, ss, len) == FormatAll(z, MergedIntervals(z, ss, len))

----------------------------------------------------------------------------
(* The slot search: calendar::find_available_slots and the task that       *)
(* MyApp::handle_fetch_slots spawns around it.                             *)

SearchDays == 14
SummarizeMinutes == 30

\* Mutant: the search window is one day long.
TimeMaxOneDay(now) == now + HoursPerDay

\* let time_max = now + Duration::days(14)
TimeMax(now) == now + SearchDays * HoursPerDay

\* Mutant: the buffer is dropped.
BufferDurationNone(minutes) == 0

\* Duration::minutes(buffer_minutes as i64), for whole hours.
BufferDuration(minutes) == minutes \div MinutesPerHour

\* Utc::now() when a search starts.
Nows == {0, 5}

\* The busy lists the calendar service returns.
FetchedPeriods == {[start |-> Some(28), end |-> Some(33)]}
FetchedBusy == SeqsUpTo(FetchedPeriods, MaxFetched)

\* The errors of the calendar list request and of the primary calendar lookup.
LookupErrors == {"calendar list request failed", "Primary calendar not found"}

\* The error of the free/busy query.
BusyErrors == {"freebusy query failed"}

\* A task as spawned by handle_fetch_slots: the three settings are copied.
NewFetchTask(buffer_minutes, sh, eh) ==
    [pc |-> "lookup", buffer_minutes |-> buffer_minutes, start_hour |-> sh, end_hour |-> eh,
     now |-> 0, busy |-> <<>>, raw_windows |-> <<>>, split_windows |-> <<>>,
     filtered_windows |-> <<>>, stages |-> <<>>, result |-> "pending", error |-> "",
     sent |-> <<>>]

\* find_available_slots from `let buffer` to `Ok(filtered_windows)`.
ComputeWindows(z, t) ==
    LET raw == find_free_windows(t.busy, t.now, TimeMax(t.now),
                                 BufferDuration(t.buffer_minutes))
        split == split_at_midnight(z, raw)
        filt == filter_slots_by_time_of_day(z, split, t.start_hour, t.end_hour)
    IN  [t EXCEPT !.raw_windows = raw, !.split_windows = split, !.filtered_windows = filt,
                  !.stages = <<"find_free_windows", "split_at_midnight",
                               "filter_slots_by_time_of_day">>,
                  !.result = "ok", !.pc = "reply"]

\* An error returned by `?` in find_available_slots.
FailSearch(t, e) == [t EXCEPT !.result = "err", !.error = e, !.pc = "reply"]

SlotsFetched(entries) == [type |-> "SlotsFetched", slots |-> entries]
SlotsFetchFailed(text) == [type |-> "SlotsFetchFailed", text |-> text]
CalendarConnected == [type |-> "CalendarConnected"]
CalendarConnectionFailed(text) == [type |-> "CalendarConnectionFailed", text |-> text]

\* The message the task sends for the result of find_available_slots.
ReplyMessage(z, t) ==
    IF t.result = "ok"
    THEN SlotsFetched(summarize_slots(z, t.filtered_windows, SummarizeMinutes))
    ELSE SlotsFetchFailed(<<"Failed to fetch slots: ", t.error>>)

\* The match on the result: summarize and send, or send the failure.
Reply(z, t) ==
    [t EXCEPT !.stages = IF t.result = "ok" THEN Append(@, "summarize_slots") ELSE @,
              !.sent = Append(@, ReplyMessage(z, t)),
              !.pc = "done"]

----------------------------------------------------------------------------
(* MyApp: the calendar part of the application *)

DefaultStartHour == 9
DefaultEndHour == 17
MaxStartHour == 22
MinEndHour == 1
MaxHour == 23

\* The local zones of the application runs: five hours behind UTC, without a
\* transition and with local midnight skipped.
AppZones == {z \in Zones : z.std = -5 /\ z.at \in {0, HoursPerDay + 5}}

\* Values of calendar_buffer_minutes: whole hours.
AppBuffers == {0, 60}

\* day_start_hour and day_end_hour in a saved state file: any u32.
SavedHours == {9, 17, 24}

\* Hours typed into the two text boxes, each within the range of its box.
StartEdits == {22}
EndEdits == {1}

\* Positions the double slider is dragged to: lower handle below the upper one.
SlidePairs == {<<0, 23>>}

\* The fields of MyApp that the handlers read and write.
App ==
    [calendar_hub |-> calendar_hub,
     is_connecting_calendar |-> is_connecting_calendar,
     is_fetching_slots |-> is_fetching_slots,
     available_slots |-> available_slots,
     status_message |-> status_message,
     calendar_buffer_minutes |-> calendar_buffer_minutes,
     day_start_hour |-> day_start_hour,
     day_end_hour |-> day_end_hour,
     connect_tasks |-> connect_tasks,
     fetch_tasks |-> fetch_tasks,
     smtp_host |-> smtp_host,
     smtp_port_str |-> smtp_port_str,
     smtp_user |-> smtp_user,
     smtp_password |-> smtp_password,
     from_email |-> from_email,
     sender_name |-> sender_name,
     template_path |-> template_path,
     email_subject |-> email_subject,
     email_body |-> email_body,
     recipients |-> recipients,
     is_sending_email |-> is_sending_email,
     config_loaded |-> config_loaded,
     template_loaded |-> template_loaded,
     send_tasks |-> send_tasks]

\* The fields of MyApp become those of st.
AppBecomes(st) ==
    /\ calendar_hub' = st.calendar_hub
    /\ is_connecting_calendar' = st.is_connecting_calendar
    /\ is_fetching_slots' = st.is_fetching_slots
    /\ available_slots' = st.available_slots
    /\ status_message' = st.status_message
    /\ calendar_buffer_minutes' = st.calendar_buffer_minutes
    /\ day_start_hour' = st.day_start_hour
    /\ day_end_hour' = st.day_end_hour
    /\ connect_tasks' = st.connect_tasks
    /\ fetch_tasks' = st.fetch_tasks
    /\ smtp_host' = st.smtp_host
    /\ smtp_port_str' = st.smtp_port_str
    /\ smtp_user' = st.smtp_user
    /\ smtp_password' = st.smtp_password
    /\ from_email' = st.from_email
    /\ sender_name' = st.sender_name
    /\ template_path' = st.template_path
    /\ email_subject' = st.email_subject
    /\ email_body' = st.email_body
    /\ recipients' = st.recipients
    /\ is_sending_email' = st.is_sending_email
    /\ config_loaded' = st.config_loaded
    /\ template_loaded' = st.template_loaded
    /\ send_tasks' = st.send_tasks

\* MyApp::handle_connect_calendar
handle_connect_calendar(st) ==
    IF st.is_connecting_calendar THEN st
    ELSE [st EXCEPT !.is_connecting_calendar = TRUE,
                    !.status_message = <<"Attempting to connect to Google Calendar... Check your browser.">>,
                    !.available_slots = <<>>,
                    !.connect_tasks = @ + 1]

\* Mutant: a task is started without is_fetching_slots being set.
FetchSlotsUnflagged(st) ==
    IF st.is_fetching_slots THEN st
    ELSE IF st.calendar_hub
    THEN [st EXCEPT !.fetch_tasks = Append(@, NewFetchTask(st.calendar_buffer_minutes,
                                                           st.day_start_hour, st.day_end_hour))]
    ELSE st

\* MyApp::handle_fetch_slots
handle_fetch_slots(st) ==
    IF st.is_fetching_slots THEN st
    ELSE IF st.calendar_hub
    THEN [st EXCEPT !.is_fetching_slots = TRUE,
                    !.status_message = <<"Fetching available slots...">>,
                    !.available_slots = <<>>,
                    !.fetch_tasks = Append(@, NewFetchTask(st.calendar_buffer_minutes,
                                                           st.day_start_hour, st.day_end_hour))]
    ELSE [st EXCEPT !.status_message = <<"Cannot fetch slots: Calendar not connected.">>]

\* update: Message::CalendarConnected
OnCalendarConnected(st) ==
    handle_fetch_slots([st EXCEPT !.is_connecting_calendar = FALSE,
                                  !.calendar_hub = TRUE,
                                  !.status_message = <<"Successfully connected to Google Calendar.">>])

\* update: Message::CalendarConnectionFailed
OnCalendarConnectionFailed(st, msg) ==
    [st EXCEPT !.is_connecting_calendar = FALSE,
               !.calendar_hub = FALSE,
               !.status_message = msg.text]

\* update: Message::SlotsFetched
OnSlotsFetched(st, msg) ==
    [st EXCEPT !.is_fetching_slots = FALSE,
               !.available_slots = msg.slots,
               !.status_message = <<"Fetched ", Len(msg.slots), " available time slots.">>]

\* Mutant: the failure only ends the fetching state.
OnSlotsFetchFailedSilent(st, msg) == [st EXCEPT !.is_fetching_slots = FALSE]

\* update: Message::SlotsFetchFailed
OnSlotsFetchFailed(st, msg) ==
    [st EXCEPT !.is_fetching_slots = FALSE,
               !.available_slots = <<>>,
               !.status_message = msg.text]

\* ---- The startup loader and the sending of invitations ----

MaxRecipients == 2   \* longest recipient list in a saved state or in config.toml

\* A recipient: the name and the address are one value here.
Addresses == {"amy@example.org"}
RecipientLists == SeqsUpTo(Addresses, MaxRecipients)

\* Template texts; the broken one does not parse as a Tera template.
BrokenTemplate == "Hi {{ recipient_name"
TemplateParses(subject, body) == subject # BrokenTemplate /\ body # BrokenTemplate

\* smtp_port_str.parse::<u16>().is_ok()
ParsesAsPort(str) == str \in {"587", "465"}

\* The fields MyApp::default sets.
DefaultFields ==
    [smtp_host |-> "", smtp_port_str |-> "587", smtp_user |-> "", smtp_password |-> "",
     from_email |-> "", sender_name |-> "", email_subject |-> "Coffee Chat Invitation",
     email_body |-> "Hi {{recipient_name}}, ...", recipients |-> <<>>]

\* The contents of app_state.json: complete SMTP settings with any recipient
\* list and a body that parses or not, and one with a port that is no number.
SavedStates ==
    {[smtp_host |-> "smtp.saved.org", smtp_port_str |-> "465", smtp_user |-> "saved user",
      smtp_password |-> "saved password", from_email |-> "me@saved.org",
      sender_name |-> "Saved Sender", email_subject |-> "Saved subject",
      email_body |-> b, recipients |-> r] :
        b \in {"Saved body", BrokenTemplate}, r \in RecipientLists}
    \cup
    {[smtp_host |-> "smtp.saved.org", smtp_port_str |-> "port", smtp_user |-> "saved user",
      smtp_password |-> "saved password", from_email |-> "me@saved.org",
      sender_name |-> "Saved Sender", email_subject |-> "Saved subject",
      email_body |-> "Saved body", recipients |-> <<"amy@example.org">>]}

\* The contents of config.toml when AppConfig::load succeeds.
Configs ==
    {[smtp |-> [host |-> "smtp.config.org", port |-> "587", user |-> "config user",
                password |-> "config password", from_email |-> "me@config.org"],
      sender |-> [name |-> "Config Sender", template_path |-> "config_template.txt"],
      recipients |-> r] : r \in {l \in RecipientLists : Len(l) = MaxRecipients}}

\* The template file when EmailTemplate::load succeeds.
TemplateFiles == {<<"File subject", "File body">>}

ConfigLoadedOk(config) == [type |-> "ConfigLoaded", ok |-> TRUE, config |-> config]
ConfigLoadedErr(text) == [type |-> "ConfigLoaded", ok |-> FALSE, text |-> text]
TemplateLoadedOk(subject, body) ==
    [type |-> "TemplateLoaded", ok |-> TRUE, subject |-> subject, body |-> body]
TemplateLoadedErr(text) == [type |-> "TemplateLoaded", ok |-> FALSE, text |-> text]
EmailSent(email) == [type |-> "EmailSent", email |-> email]
EmailFailed(email, error) == [type |-> "EmailFailed", email |-> email, error |-> error]
FinishedSending(success, failed) ==
    [type |-> "FinishedSending", success |-> success, failed |-> failed]

\* status_message.contains(phrase), for the phrases update looks for.
StatusContains(status, phrase) ==
    CASE phrase = "Using defaults" ->
             status[1] \in {"No saved state found. Using defaults.",
                            "Failed to load saved state. Using defaults."}
      [] phrase = "Loaded previous session state." ->
             status[1] = "Loaded previous session state."
      [] phrase = "Applied defaults from config.toml" ->
             status[1] = "Applied defaults from config.toml."
      [] phrase = "Initial config processed" ->
             status[1] = "Loaded previous session. Initial config processed."

\* A task as spawned by handle_send_invitations: the recipients, the subject
\* and the body are copied.
NewSendTask(st) ==
    [pc |-> "template", recipients |-> st.recipients, email_subject |-> st.email_subject,
     email_body |-> st.email_body, next |-> 1, success_count |-> 0, error_count |-> 0,
     sent |-> <<>>]

\* MyApp::handle_send_invitations
handle_send_invitations(st) ==
    IF st.is_sending_email
    THEN [st EXCEPT !.status_message = <<"Already sending emails...">>]
    ELSE IF st.recipients = <<>>
    THEN [st EXCEPT !.status_message = <<"Cannot send: No recipients added.">>]
    ELSE IF ~ParsesAsPort(st.smtp_port_str)
    THEN [st EXCEPT !.status_message = <<"Invalid SMTP Port number.">>]
    ELSE IF st.smtp_host = "" \/ st.smtp_user = "" \/ st.from_email = "" \/ st.smtp_password = ""
    THEN [st EXCEPT !.status_message =
              <<"Error: Missing required SMTP settings (Host, User, Password, From Email).">>]
    ELSE [st EXCEPT !.is_sending_email = TRUE,
                    !.status_message = <<"Sending emails to ", Len(st.recipients), " recipients...">>,
                    !.send_tasks = Append(@, NewSendTask(st))]

\* The task: EmailTemplate::from_content on the copied subject and body.
SendBuildTemplate(t) ==
    IF TemplateParses(t.email_subject, t.email_body)
    THEN [t EXCEPT !.pc = "send"]
    ELSE [t EXCEPT !.error_count = Len(t.recipients),
                   !.sent = Append(@, EmailFailed("All Recipients",
                                                  "Template Error (Subject/Body invalid)")),
                   !.pc = "finish"]

\* Mutant: a failed delivery is not counted.
SendOneUncounted(t, delivered) ==
    [t EXCEPT !.success_count = IF delivered THEN @ + 1 ELSE @,
              !.sent = Append(@, IF delivered THEN EmailSent(t.recipients[t.next])
                                 ELSE EmailFailed(t.recipients[t.next], "delivery failed")),
              !.next = @ + 1,
              !.pc = IF t.next = Len(t.recipients) THEN "finish" ELSE "send"]

\* The task: one pass of `for recipient in recipients_to_send`.
SendOne(t, delivered) ==
    [t EXCEPT !.success_count = IF delivered THEN @ + 1 ELSE @,
              !.error_count = IF delivered THEN @ ELSE @ + 1,
              !.sent = Append(@, IF delivered THEN EmailSent(t.recipients[t.next])
                                 ELSE EmailFailed(t.recipients[t.next], "delivery failed")),
              !.next = @ + 1,
              !.pc = IF t.next = Len(t.recipients) THEN "finish" ELSE "send"]

\* The task: the FinishedSending message after the match.
SendFinish(t) ==
    [t EXCEPT !.sent = Append(@, FinishedSending(t.success_count, t.error_count)),
              !.pc = "done"]

\* Mutant: the configuration is applied also over a loaded state.
OnConfigLoadedAlways(st, msg) ==
    IF msg.ok
    THEN [st EXCEPT !.smtp_host = msg.config.smtp.host,
                    !.smtp_port_str = msg.config.smtp.port,
                    !.smtp_user = msg.config.smtp.user,
                    !.smtp_password = msg.config.smtp.password,
                    !.from_email = msg.config.smtp.from_email,
                    !.sender_name = msg.config.sender.name,
                    !.recipients = msg.config.recipients,
                    !.template_path = msg.config.sender.template_path,
                    !.config_loaded = TRUE]
    ELSE [st EXCEPT !.config_loaded = TRUE]

\* update: Message::ConfigLoaded(Ok(config)) and Message::ConfigLoaded(Err(e))
OnConfigLoaded(st, msg) ==
    IF msg.ok
    THEN IF ~state_loaded_from_file
         THEN [st EXCEPT !.smtp_host = msg.config.smtp.host,
                         !.smtp_port_str = msg.config.smtp.port,
                         !.smtp_user = msg.config.smtp.user,
                         !.smtp_password = msg.config.smtp.password,
                         !.from_email = msg.config.smtp.from_email,
                         !.sender_name = msg.config.sender.name,
                         !.recipients = msg.config.recipients,
                         !.status_message =
                             IF StatusContains(st.status_message, "Using defaults")
                             THEN <<"Applied defaults from config.toml.">> ELSE @,
                         !.template_path = msg.config.sender.template_path,
                         !.config_loaded = TRUE]
         ELSE [st EXCEPT !.status_message =
                             IF StatusContains(st.status_message, "Loaded previous session state.")
                             THEN <<"Loaded previous session. Initial config processed.">> ELSE @,
                         !.template_path = msg.config.sender.template_path,
                         !.config_loaded = TRUE]
    ELSE [st EXCEPT !.status_message =
                        IF ~state_loaded_from_file /\ StatusContains(st.status_message, "Using defaults")
                        THEN <<"ERROR loading initial config: ", msg.text>> ELSE @,
                    !.config_loaded = TRUE]

\* Mutant: the message is dropped without marking the template as loaded.
OnTemplateLoadedUnmarked(st, msg) == st

\* update: Message::TemplateLoaded(Ok((subject, body))) and Message::TemplateLoaded(Err(e))
OnTemplateLoaded(st, msg) ==
    IF msg.ok
    THEN IF ~state_loaded_from_file
         THEN [st EXCEPT !.email_subject = msg.subject,
                         !.email_body = msg.body,
                         !.status_message =
                             IF StatusContains(st.status_message, "Applied defaults from config.toml")
                             THEN <<"Applied defaults from config and template.">>
                             ELSE IF StatusContains(st.status_message, "Using defaults")
                             THEN <<"Applied defaults from template.">> ELSE @,
                         !.template_loaded = TRUE]
         ELSE [st EXCEPT !.status_message =
                             IF StatusContains(st.status_message, "Initial config processed")
                             THEN <<"Loaded previous session. Initial config/template processed.">>
                             ELSE @,
                         !.template_loaded = TRUE]
    ELSE [st EXCEPT !.status_message =
                        IF ~state_loaded_from_file /\ StatusContains(st.status_message, "Using defaults")
                        THEN <<"ERROR loading initial template: ", msg.text>> ELSE @,
                    !.template_loaded = TRUE]

\* update: Message::EmailSent
OnEmailSent(st, msg) == st

\* update: Message::EmailFailed
OnEmailFailed(st, msg) ==
    [st EXCEPT !.status_message = <<"ERROR sending to ", msg.email, ": ", msg.error>>]

\* Mutant: the end of the sending is only reported.
OnFinishedSendingStillBusy(st, msg) ==
    [st EXCEPT !.status_message =
                   <<"Finished sending. Success: ", msg.success, ", Failed: ", msg.failed>>]

\* update: Message::FinishedSending
OnFinishedSending(st, msg) ==
    [st EXCEPT !.is_sending_email = FALSE,
               !.status_message =
                   <<"Finished sending. Success: ", msg.success, ", Failed: ", msg.failed>>]

\* update: the match on one received message.
OnMessage(st, msg) ==
    CASE msg.type = "CalendarConnected" -> OnCalendarConnected(st)
      [] msg.type = "CalendarConnectionFailed" -> OnCalendarConnectionFailed(st, msg)
      [] msg.type = "SlotsFetched" -> OnSlotsFetched(st, msg)
      [] msg.type = "SlotsFetchFailed" -> OnSlotsFetchFailed(st, msg)
      [] msg.type = "ConfigLoaded" -> OnConfigLoaded(st, msg)
      [] msg.type = "TemplateLoaded" -> OnTemplateLoaded(st, msg)
      [] msg.type = "EmailSent" -> OnEmailSent(st, msg)
      [] msg.type = "EmailFailed" -> OnEmailFailed(st, msg)
      [] msg.type = "FinishedSending" -> OnFinishedSending(st, msg)

\* egui::DragValue with .range(lo..=hi): the value shown is kept in the range.
ClampToRange(v, lo, hi) == Max(lo, Min(v, hi))

\* One frame of the "Calendar Settings" section: the double slider, the two
\* text boxes, then the re-validation when a text box reports a change.
\* `slide` is the pair the slider was dragged to, `from` and `to` the hours
\* typed into the text boxes; <<>> stands for no input.
SettingsFrame(st, slide, from, to) ==
    LET s0 == IF slide = <<>> THEN st.day_start_hour ELSE slide[1]
        e0 == IF slide = <<>> THEN st.day_end_hour ELSE slide[2]
        s1 == IF from = <<>> THEN ClampToRange(s0, 0, MaxStartHour) ELSE from[1]
        e1 == IF to = <<>> THEN ClampToRange(e0, MinEndHour, MaxHour) ELSE to[1]
        changed == s1 # s0 \/ e1 # e0
        e2 == IF changed /\ s1 >= e1 THEN Min(s1 + 1, MaxHour) ELSE e1
    IN  [st EXCEPT !.day_start_hour = s1, !.day_end_hour = e2]

----------------------------------------------------------------------------
(* The state machine: one call of one of the three functions. *)

IdleZone == zone = [std |-> 0, at |-> 0, shift |-> 0]

IdleFree ==
    /\ busy = <<>> /\ window_start = 0 /\ window_end = 0 /\ buffer = 0
    /\ periods = <<>> /\ idx = 1 /\ cursor = 0 /\ windows = <<>>

IdleSplit ==
    /\ raw_windows = <<>> /\ win_i = 1 /\ cur_start = 0 /\ cur_date = 0
    /\ end_date = 0 /\ out = <<>>

IdleFilter ==
    /\ slots = <<>> /\ start_hour = 0 /\ end_hour = 0 /\ slot_i = 1 /\ filtered = <<>>

IdleSummarize ==
    /\ sum_slots = <<>> /\ min_len = 0 /\ by_day = <<>> /\ day_i = 1
    /\ merged = <<>> /\ summary = <<>>

\* The mail fields as MyApp::default sets them, without loader or send task.
IdleMail ==
    /\ smtp_host = DefaultFields.smtp_host /\ smtp_port_str = DefaultFields.smtp_port_str
    /\ smtp_user = DefaultFields.smtp_user /\ smtp_password = DefaultFields.smtp_password
    /\ from_email = DefaultFields.from_email /\ sender_name = DefaultFields.sender_name
    /\ template_path = "email_template.txt"
    /\ email_subject = DefaultFields.email_subject /\ email_body = DefaultFields.email_body
    /\ recipients = DefaultFields.recipients
    /\ is_sending_email = FALSE /\ config_loaded = FALSE /\ template_loaded = FALSE
    /\ loader = "done" /\ send_tasks = <<>>

IdleApp ==
    /\ calendar_hub = FALSE /\ is_connecting_calendar = FALSE /\ is_fetching_slots = FALSE
    /\ available_slots = <<>> /\ status_message = <<"Initializing...">>
    /\ calendar_buffer_minutes = 0
    /\ day_start_hour = DefaultStartHour /\ day_end_hour = DefaultEndHour
    /\ state_loaded_from_file = FALSE
    /\ receiver = <<>> /\ connect_tasks = 0 /\ fetch_tasks = <<>> /\ ui_events = 0
    /\ IdleMail

\* Entry of find_free_windows, up to `let mut cursor = window_start`.
InitFree ==
    /\ busy \in SeqsUpTo(TimePeriods, MaxBusy)
    /\ window_start \in WindowStarts
    /\ window_end \in Times
    /\ window_start < window_end
    /\ buffer \in Buffers
    /\ periods = SortedPeriods(busy)
    /\ idx = 1
    /\ cursor = window_start
    /\ windows = <<>>
    /\ pc = IF busy = <<>> THEN "tail" ELSE "sweep"
    /\ IdleZone /\ IdleSplit /\ IdleFilter /\ IdleSummarize /\ IdleApp

\* One iteration of the for loop.
Sweep ==
    /\ pc = "sweep"
    /\ idx <= Len(periods)
    /\ LET st == SweepBody([cursor |-> cursor, windows |-> windows, stop |-> FALSE],
                           periods[idx], window_end, buffer)
       IN  /\ cursor' = st.cursor
           /\ windows' = st.windows
           /\ idx' = idx + 1
           /\ pc' = IF st.stop \/ idx = Len(periods) THEN "tail" ELSE "sweep"
    /\ UNCHANGED <<busy, window_start, window_end, buffer, periods>>
    /\ UNCHANGED <<zone, splitVars, filterVars, sumVars, appVars>>

\* The trailing gap after the loop, and the return.
SweepTail ==
    /\ pc = "tail"
    /\ windows' = PushTail(windows, cursor, window_end)
    /\ pc' = "free_done"
    /\ UNCHANGED <<busy, window_start, window_end, buffer, periods, idx, cursor>>
    /\ UNCHANGED <<zone, splitVars, filterVars, sumVars, appVars>>

NextFree == Sweep \/ SweepTail

SpecFree == InitFree /\ [][NextFree]_vars

\* Entry of split_at_midnight.
InitSplit ==
    /\ zone \in Zones
    /\ raw_windows \in IntervalLists(MaxWindows, 0)
    /\ win_i = 1 /\ cur_start = 0 /\ cur_date = 0 /\ end_date = 0
    /\ out = <<>>
    /\ pc = IF raw_windows = <<>> THEN "split_done" ELSE "split_enter"
    /\ IdleFree /\ IdleFilter /\ IdleSummarize /\ IdleApp

\* for &(s_utc, e_utc) in windows: the three `let`s.
SplitEnter ==
    /\ pc = "split_enter"
    /\ cur_start' = raw_windows[win_i][1]
    /\ cur_date' = DateNaive(zone, raw_windows[win_i][1])
    /\ end_date' = DateNaive(zone, raw_windows[win_i][2])
    /\ pc' = "split_loop"
    /\ UNCHANGED <<raw_windows, win_i, out>>
    /\ UNCHANGED <<zone, freeVars, filterVars, sumVars, appVars>>

\* One test of the while condition and, when it holds, one pass of the body.
SplitLoop ==
    /\ pc = "split_loop"
    /\ LET e_utc == raw_windows[win_i][2]
           nm_utc == SplitPoint(zone, cur_date, e_utc)
       IN  IF cur_date < end_date /\ IsSome(nm_utc)
           THEN /\ out' = Append(out, <<cur_start, Unwrap(nm_utc)>>)
                /\ cur_start' = Unwrap(nm_utc)
                /\ cur_date' = DateNaive(zone, Unwrap(nm_utc))
                /\ pc' = "split_loop"
           ELSE /\ pc' = "split_final"
                /\ UNCHANGED <<out, cur_start, cur_date>>
    /\ UNCHANGED <<raw_windows, win_i, end_date>>
    /\ UNCHANGED <<zone, freeVars, filterVars, sumVars, appVars>>

\* The final push for the window, and the step to the next window.
SplitFinal ==
    /\ pc = "split_final"
    /\ out' = PushFinal(out, raw_windows[win_i][1], cur_start, raw_windows[win_i][2])
    /\ win_i' = win_i + 1
    /\ pc' = IF win_i = Len(raw_windows) THEN "split_done" ELSE "split_enter"
    /\ UNCHANGED <<raw_windows, cur_start, cur_date, end_date>>
    /\ UNCHANGED <<zone, freeVars, filterVars, sumVars, appVars>>

NextSplit == SplitEnter \/ SplitLoop \/ SplitFinal

SpecSplit == InitSplit /\ [][NextSplit]_vars

\* Entry of filter_slots_by_time_of_day.
InitFilter ==
    /\ zone \in Zones
    /\ slots \in IntervalLists(MaxSlots, 0)
    /\ start_hour \in HourChoices
    /\ end_hour \in HourChoices
    /\ slot_i = 1
    /\ filtered = <<>>
    /\ pc = "filter_check"
    /\ IdleFree /\ IdleSplit /\ IdleSummarize /\ IdleApp

\* The hour range check: an invalid range returns slots.to_vec().
FilterCheck ==
    /\ pc = "filter_check"
    /\ IF InvalidHours(start_hour, end_hour)
       THEN filtered' = slots /\ pc' = "filter_done"
       ELSE filtered' = filtered
            /\ pc' = IF slots = <<>> THEN "filter_done" ELSE "filter_loop"
    /\ UNCHANGED <<slots, start_hour, end_hour, slot_i>>
    /\ UNCHANGED <<zone, freeVars, splitVars, sumVars, appVars>>

\* One iteration of the for loop.
FilterStep ==
    /\ pc = "filter_loop"
    /\ filtered' = FilterSlot(zone, filtered, slots[slot_i], start_hour, end_hour)
    /\ slot_i' = slot_i + 1
    /\ pc' = IF slot_i = Len(slots) THEN "filter_done" ELSE "filter_loop"
    /\ UNCHANGED <<slots, start_hour, end_hour>>
    /\ UNCHANGED <<zone, freeVars, splitVars, sumVars, appVars>>

NextFilter == FilterCheck \/ FilterStep

SpecFilter == InitFilter /\ [][NextFilter]_vars

\* Entry of summarize_slots.
InitSummarize ==
    /\ zone \in Zones
    /\ sum_slots \in SeqsUpTo(SumIntervals, MaxSummary)
    /\ min_len \in MinLens
    /\ by_day = <<>> /\ day_i = 1 /\ merged = <<>> /\ summary = <<>>
    /\ pc = "sum_group"
    /\ IdleFree /\ IdleSplit /\ IdleFilter /\ IdleApp

\* The first for loop: by_day is filled.
SumGroup ==
    /\ pc = "sum_group"
    /\ by_day' = GroupByDay(zone, sum_slots)
    /\ pc' = IF sum_slots = <<>> THEN "sum_done" ELSE "sum_day"
    /\ UNCHANGED <<sum_slots, min_len, day_i, merged, summary>>
    /\ UNCHANGED <<zone, freeVars, splitVars, filterVars, appVars>>

\* One iteration of `for (day, mut day_slots) in by_day`: sort, merge, drop
\* what is too short, format.
SumDay ==
    /\ pc = "sum_day"
    /\ LET m == MergeDay(SortDay(by_day[day_i].slots), min_len)
       IN  /\ merged' = merged \o m
           /\ summary' = summary \o FormatAll(zone, m)
    /\ day_i' = day_i + 1
    /\ pc' = IF day_i = Len(by_day) THEN "sum_done" ELSE "sum_day"
    /\ UNCHANGED <<sum_slots, min_len, by_day>>
    /\ UNCHANGED <<zone, freeVars, splitVars, filterVars, appVars>>

NextSummarize == SumGroup \/ SumDay

SpecSummarize == InitSummarize /\ [][NextSummarize]_vars

\* MyApp::new: the defaults, or the hours of a saved state file copied as they
\* are. The buffer is a whole number of hours (the model's time unit): a run
\* is taken up with the buffer at 0. The mail fields are left at rest.
InitApp ==
    /\ zone \in AppZones
    /\ calendar_hub = FALSE /\ is_connecting_calendar = FALSE /\ is_fetching_slots = FALSE
    /\ available_slots = <<>>
    /\ calendar_buffer_minutes = 0
    /\ \/ /\ state_loaded_from_file = FALSE
          /\ status_message = <<"No saved state found. Using defaults.">>
          /\ day_start_hour = DefaultStartHour /\ day_end_hour = DefaultEndHour
       \/ /\ state_loaded_from_file = TRUE
          /\ status_message = <<"Loaded previous session state.">>
          /\ day_start_hour \in SavedHours /\ day_end_hour \in SavedHours
    /\ receiver = <<>> /\ connect_tasks = 0 /\ fetch_tasks = <<>> /\ ui_events = 0
    /\ IdleMail
    /\ pc = "app"
    /\ IdleFree /\ IdleSplit /\ IdleFilter /\ IdleSummarize

AppFrame ==
    UNCHANGED <<pc, zone, freeVars, splitVars, filterVars, sumVars, state_loaded_from_file, loader>>

UiEvent == ui_events < MaxUiEvents /\ ui_events' = ui_events + 1

\* A click on the connect button, enabled while no connection is under way.
ClickConnect ==
    /\ pc = "app" /\ UiEvent
    /\ ~is_connecting_calendar
    /\ AppBecomes(IF ~calendar_hub THEN handle_connect_calendar(App)
                  ELSE [App EXCEPT !.status_message = <<"Calendar already connected.">>])
    /\ UNCHANGED receiver
    /\ AppFrame

\* The connection task ends with a hub.
ConnectSucceeds ==
    /\ pc = "app" /\ connect_tasks > 0
    /\ AppBecomes([App EXCEPT !.connect_tasks = @ - 1])
    /\ receiver' = Append(receiver, CalendarConnected)
    /\ UNCHANGED ui_events
    /\ AppFrame

\* The connection task ends with an error.
ConnectFails ==
    /\ pc = "app" /\ connect_tasks > 0
    /\ AppBecomes([App EXCEPT !.connect_tasks = @ - 1])
    /\ receiver' = Append(receiver, CalendarConnectionFailed(
                       <<"Calendar connection failed: ", "authentication failed",
                         ". Check credentials/permissions.">>))
    /\ UNCHANGED ui_events
    /\ AppFrame

\* A click on "Fetch Slots"; the button is enabled only with a hub and no
\* fetch under way.
ClickFetch ==
    /\ pc = "app" /\ UiEvent
    /\ calendar_hub /\ ~is_fetching_slots
    /\ AppBecomes(handle_fetch_slots(App))
    /\ UNCHANGED receiver
    /\ AppFrame

\* An hour typed into the "From" text box.
EditStartHour ==
    /\ pc = "app" /\ UiEvent
    /\ \E v \in StartEdits : AppBecomes(SettingsFrame(App, <<>>, <<v>>, <<>>))
    /\ UNCHANGED receiver
    /\ AppFrame

\* An hour typed into the "To" text box.
EditEndHour ==
    /\ pc = "app" /\ UiEvent
    /\ \E v \in EndEdits : AppBecomes(SettingsFrame(App, <<>>, <<>>, <<v>>))
    /\ UNCHANGED receiver
    /\ AppFrame

\* A drag of the double slider.
SlideHours ==
    /\ pc = "app" /\ UiEvent
    /\ \E p \in SlidePairs : AppBecomes(SettingsFrame(App, p, <<>>, <<>>))
    /\ UNCHANGED receiver
    /\ AppFrame

\* The buffer set with its slider or its text box.
EditBuffer ==
    /\ pc = "app" /\ UiEvent
    /\ \E v \in AppBuffers \ {calendar_buffer_minutes} :
          AppBecomes([App EXCEPT !.calendar_buffer_minutes = v])
    /\ UNCHANGED receiver
    /\ AppFrame

\* Task a moves on to t.
TaskBecomes(a, t) ==
    /\ fetch_tasks' = [fetch_tasks EXCEPT ![a] = t]
    /\ UNCHANGED <<calendar_hub, is_connecting_calendar, is_fetching_slots, available_slots,
                   status_message, calendar_buffer_minutes, day_start_hour, day_end_hour,
                   connect_tasks, ui_events>>
    /\ UNCHANGED <<smtp_host, smtp_port_str, smtp_user, smtp_password, from_email, sender_name,
                   template_path, email_subject, email_body, recipients, is_sending_email,
                   config_loaded, template_loaded, send_tasks>>
    /\ AppFrame

\* find_available_slots: the primary calendar is found; now is read.
LookupSucceeds ==
    /\ pc = "app"
    /\ \E a \in DOMAIN fetch_tasks :
          /\ fetch_tasks[a].pc = "lookup"
          /\ \E now \in Nows : TaskBecomes(a, [fetch_tasks[a] EXCEPT !.now = now, !.pc = "busy"])
    /\ UNCHANGED receiver

\* find_available_slots: the calendar list request fails or holds no primary calendar.
LookupFails ==
    /\ pc = "app"
    /\ \E a \in DOMAIN fetch_tasks :
          /\ fetch_tasks[a].pc = "lookup"
          /\ \E e \in LookupErrors : TaskBecomes(a, FailSearch(fetch_tasks[a], e))
    /\ UNCHANGED receiver

\* get_busy_slots returns the busy periods.
BusySucceeds ==
    /\ pc = "app"
    /\ \E a \in DOMAIN fetch_tasks :
          /\ fetch_tasks[a].pc = "busy"
          /\ \E b \in FetchedBusy :
                TaskBecomes(a, [fetch_tasks[a] EXCEPT !.busy = b, !.pc = "compute"])
    /\ UNCHANGED receiver

\* get_busy_slots fails.
BusyFails ==
    /\ pc = "app"
    /\ \E a \in DOMAIN fetch_tasks :
          /\ fetch_tasks[a].pc = "busy"
          /\ \E e \in BusyErrors : TaskBecomes(a, FailSearch(fetch_tasks[a], e))
    /\ UNCHANGED receiver

\* find_available_slots: free windows, split, filter, return.
FetchCompute ==
    /\ pc = "app"
    /\ \E a \in DOMAIN fetch_tasks :
          /\ fetch_tasks[a].pc = "compute"
          /\ TaskBecomes(a, ComputeWindows(zone, fetch_tasks[a]))
    /\ UNCHANGED receiver

\* The task's match on the result: one message is sent.
FetchReply ==
    /\ pc = "app"
    /\ \E a \in DOMAIN fetch_tasks :
          /\ fetch_tasks[a].pc = "reply"
          /\ TaskBecomes(a, Reply(zone, fetch_tasks[a]))
          /\ receiver' = Append(receiver, ReplyMessage(zone, fetch_tasks[a]))

\* update: one iteration of `while let Ok(message) = self.receiver.try_recv()`.
Update ==
    /\ pc = "app"
    /\ receiver # <<>>
    /\ AppBecomes(OnMessage(App, Head(receiver)))
    /\ receiver' = Tail(receiver)
    /\ UNCHANGED ui_events
    /\ AppFrame

NextApp ==
    \/ ClickConnect \/ ConnectSucceeds \/ ConnectFails \/ ClickFetch
    \/ EditStartHour \/ EditEndHour \/ SlideHours \/ EditBuffer
    \/ LookupSucceeds \/ LookupFails \/ BusySucceeds \/ BusyFails
    \/ FetchCompute \/ FetchReply \/ Update

SpecApp == InitApp /\ [][NextApp]_vars

\* ---- The whole application: loader thread, calendar, sending ----

\* MyApp::new with the loader thread of MyApp::default started: the defaults
\* (no state file, or one that does not deserialize) or the fields of a saved
\* state. The calendar settings are the defaults, with the buffer at 0.
InitMyApp ==
    /\ zone \in {z \in AppZones : z.shift = 0}
    /\ calendar_hub = FALSE /\ is_connecting_calendar = FALSE /\ is_fetching_slots = FALSE
    /\ available_slots = <<>>
    /\ calendar_buffer_minutes = 0
    /\ day_start_hour = DefaultStartHour /\ day_end_hour = DefaultEndHour
    /\ \E f \in {DefaultFields} \cup SavedStates :
          /\ state_loaded_from_file = (f \in SavedStates)
          /\ status_message \in
                 IF f \in SavedStates THEN {<<"Loaded previous session state.">>}
                 ELSE {<<"No saved state found. Using defaults.">>,
                       <<"Failed to load saved state. Using defaults.">>}
          /\ smtp_host = f.smtp_host /\ smtp_port_str = f.smtp_port_str
          /\ smtp_user = f.smtp_user /\ smtp_password = f.smtp_password
          /\ from_email = f.from_email /\ sender_name = f.sender_name
          /\ email_subject = f.email_subject /\ email_body = f.email_body
          /\ recipients = f.recipients
    /\ template_path = "email_template.txt"
    /\ is_sending_email = FALSE /\ config_loaded = FALSE /\ template_loaded = FALSE
    /\ loader = "config" /\ send_tasks = <<>>
    /\ receiver = <<>> /\ connect_tasks = 0 /\ fetch_tasks = <<>> /\ ui_events = 0
    /\ pc = "app"
    /\ IdleFree /\ IdleSplit /\ IdleFilter /\ IdleSummarize

\* A step of the loader thread: it moves on and sends msg.
LoaderSends(position, msg) ==
    /\ loader' = position
    /\ receiver' = Append(receiver, msg)
    /\ AppBecomes(App)
    /\ UNCHANGED <<pc, zone, freeVars, splitVars, filterVars, sumVars, state_loaded_from_file,
                   ui_events>>

\* AppConfig::load returns Ok.
LoadConfigOk ==
    /\ pc = "app" /\ loader = "config"
    /\ \E c \in Configs : LoaderSends("template", ConfigLoadedOk(c))

\* AppConfig::load returns Err: the first of the two messages of that arm.
LoadConfigFails ==
    /\ pc = "app" /\ loader = "config"
    /\ LoaderSends("no_template",
                   ConfigLoadedErr("Failed to load config initially: configuration file not found"))

\* The second message after a configuration error.
SkipTemplate ==
    /\ pc = "app" /\ loader = "no_template"
    /\ LoaderSends("done", TemplateLoadedErr("Template not loaded (initial config error)"))

\* EmailTemplate::load returns Ok.
LoadTemplateOk ==
    /\ pc = "app" /\ loader = "template"
    /\ \E f \in TemplateFiles : LoaderSends("done", TemplateLoadedOk(f[1], f[2]))

\* EmailTemplate::load returns Err.
LoadTemplateFails ==
    /\ pc = "app" /\ loader = "template"
    /\ LoaderSends("done",
                   TemplateLoadedErr("Failed to load template initially: template file not found"))

\* The "Add" button of the recipient list, with a name and an address typed in.
AddRecipient ==
    /\ pc = "app" /\ UiEvent
    /\ Len(recipients) <= MaxRecipients
    /\ \E r \in Addresses :
          AppBecomes([App EXCEPT !.recipients = Append(@, r),
                                 !.status_message = <<"Recipient added.">>])
    /\ UNCHANGED receiver
    /\ AppFrame

\* A click on "Send Invitations"; the button is enabled when nothing is under
\* way and both loader messages have been processed.
ClickSend ==
    /\ pc = "app" /\ UiEvent
    /\ ~is_sending_email /\ ~is_connecting_calendar /\ ~is_fetching_slots
    /\ config_loaded /\ template_loaded
    /\ AppBecomes(handle_send_invitations(App))
    /\ UNCHANGED receiver
    /\ AppFrame

\* Send task a moves on to t; what t has sent beyond before goes to the channel.
SendTaskBecomes(a, t) ==
    /\ AppBecomes([App EXCEPT !.send_tasks[a] = t])
    /\ receiver' = receiver \o SubSeq(t.sent, Len(send_tasks[a].sent) + 1, Len(t.sent))
    /\ UNCHANGED ui_events
    /\ AppFrame

\* The send task builds the template from the copied subject and body.
TemplateBuilt ==
    /\ pc = "app"
    /\ \E a \in DOMAIN send_tasks :
          /\ send_tasks[a].pc = "template"
          /\ SendTaskBecomes(a, SendBuildTemplate(send_tasks[a]))

\* send_invitation_email returns Ok for the next recipient.
EmailDelivered ==
    /\ pc = "app"
    /\ \E a \in DOMAIN send_tasks :
          /\ send_tasks[a].pc = "send"
          /\ SendTaskBecomes(a, SendOne(send_tasks[a], TRUE))

\* send_invitation_email returns Err for the next recipient.
EmailRejected ==
    /\ pc = "app"
    /\ \E a \in DOMAIN send_tasks :
          /\ send_tasks[a].pc = "send"
          /\ SendTaskBecomes(a, SendOne(send_tasks[a], FALSE))

\* The send task sends FinishedSending and ends.
SendingFinished ==
    /\ pc = "app"
    /\ \E a \in DOMAIN send_tasks :
          /\ send_tasks[a].pc = "finish"
          /\ SendTaskBecomes(a, SendFinish(send_tasks[a]))

LoaderStep == LoadConfigOk \/ LoadConfigFails \/ SkipTemplate \/ LoadTemplateOk \/ LoadTemplateFails

ConnectStep == ConnectSucceeds \/ ConnectFails

FetchStep ==
    LookupSucceeds \/ LookupFails \/ BusySucceeds \/ BusyFails \/ FetchCompute \/ FetchReply

SendStep == TemplateBuilt \/ EmailDelivered \/ EmailRejected \/ SendingFinished

\* The loader, the recipient list and the sending, with the calendar left alone.
NextMail == AddRecipient \/ ClickSend \/ LoaderStep \/ SendStep \/ Update

SpecMail == InitMyApp /\ [][NextMail]_vars

\* The loader thread and the send task run to their end, and update is called
\* again as long as a message waits.
SpecMailFair ==
    SpecMail /\ WF_vars(LoaderStep) /\ WF_vars(SendStep) /\ WF_vars(Update)

\* The background operations: the loader, connecting (with the slot search
\* that follows a connection) and sending.
NextLive ==
    \/ ClickConnect \/ ClickSend
    \/ LoaderStep \/ ConnectStep \/ FetchStep \/ SendStep
    \/ Update

\* Every task runs to its end as well.
FairLive ==
    /\ WF_vars(LoaderStep) /\ WF_vars(ConnectStep) /\ WF_vars(FetchStep)
    /\ WF_vars(SendStep) /\ WF_vars(Update)

SpecLive == InitMyApp /\ [][NextLive]_vars /\ FairLive

\* A call of any of the three functions.
Init == InitFree \/ InitSplit \/ InitFilter

Next == Sweep \/ SweepTail \/ SplitEnter \/ SplitLoop \/ SplitFinal \/ FilterCheck \/ FilterStep

Spec == Init /\ [][Next]_vars

----------------------------------------------------------------------------
(* Properties of find_free_windows (SpecFree) *)

FreeDone == pc = "free_done"

Complete(p) == IsSome(p.start) /\ IsSome(p.end)

\* t lies in busy period p padded by the buffer on both sides.
InPadded(t, p, buf) ==
    Complete(p) /\ Unwrap(p.start) - buf <= t /\ t < Unwrap(p.end) + buf

\* The indices of the returned intervals that contain t.
FreeAt(t) == {a \in DOMAIN windows : windows[a][1] <= t /\ t < windows[a][2]}

\* C1: the intervals find_free_windows returns are sorted by start ascending
\* and pairwise non-overlapping: each interval's end is <= the next one's start.
C1_SortedDisjoint ==
    FreeDone =>
        \A a \in 1..(Len(windows) - 1) :
            /\ windows[a][1] <= windows[a + 1][1]
            /\ windows[a][2] <= windows[a + 1][1]

C1_Witness ==
    /\ FreeDone /\ Len(busy) >= 2 /\ Len(windows) >= 2 /\ buffer > 0
    /\ \E a \in DOMAIN busy, b \in DOMAIN busy :
          /\ a < b /\ Complete(busy[a]) /\ Complete(busy[b])
          /\ Unwrap(busy[b].start) <= Unwrap(busy[a].end)

\* C2: every interval find_free_windows returns lies inside the search
\* window: start >= window_start and end <= window_end.
C2_InsideWindow ==
    FreeDone =>
        \A a \in DOMAIN windows :
            windows[a][1] >= window_start /\ windows[a][2] <= window_end

\* C3: conservation: every instant of [window_start, window_end) lies either
\* in exactly one returned interval or in at least one busy period (both
\* bounds present) padded by the buffer, never in both.
C3_Conservation ==
    FreeDone =>
        \A t \in window_start..(window_end - 1) :
            IF \E a \in DOMAIN busy : InPadded(t, busy[a], buffer)
            THEN FreeAt(t) = {}
            ELSE Cardinality(FreeAt(t)) = 1

C3_Witness ==
    /\ FreeDone /\ buffer > 0
    /\ \E t \in window_start..(window_end - 1) :
          \E a \in DOMAIN busy : InPadded(t, busy[a], buffer)
    /\ \E t \in window_start..(window_end - 1) : FreeAt(t) # {}

\* A period with a missing bound, the bound replaced by the window's.
WithWindowBounds(p) ==
    [start |-> IF IsSome(p.start) THEN p.start ELSE Some(window_start),
     end |-> IF IsSome(p.end) THEN p.end ELSE Some(window_end)]

C6_EmptyBusy ==
    (FreeDone /\ busy = <<>>) => windows = <<<<window_start, window_end>>>>

C6_Witness == FreeDone /\ busy = <<>> /\ buffer > 0 /\ Len(windows) = 1

\* The reorderings of a list.
Reorderings(s) ==
    {[a \in DOMAIN s |-> s[f[a]]] : f \in Permutations(DOMAIN s)}

\* p lies wholly inside q.
Contained(p, q) ==
    /\ Complete(p) /\ Complete(q)
    /\ Unwrap(q.start) <= Unwrap(p.start) /\ Unwrap(p.end) <= Unwrap(q.end)

C7_OrderAndAbsorption ==
    FreeDone =>
        /\ \A r \in Reorderings(busy) :
              find_free_windows(r, window_start, window_end, buffer) = windows
        /\ \A p \in TimePeriods :
              (\E a \in DOMAIN busy : p = busy[a] \/ Contained(p, busy[a])) =>
                  find_free_windows(Append(busy, p), window_start, window_end, buffer)
                      = windows

\* C7: the result does not depend on the order of the busy periods and is
\* unchanged by adding a duplicate of a busy period or a period contained in
\* one; during the sweep the cursor never decreases and never drops below
\* window_start.
C7_OrderIndependentMonotone ==
    /\ [](C7_OrderAndAbsorption /\ cursor >= window_start)
    /\ [][cursor' >= cursor]_vars

C7_Witness ==
    /\ FreeDone /\ Len(busy) >= 2 /\ Len(windows) >= 2
    /\ busy # periods
    /\ cursor > window_start
    /\ \E a \in DOMAIN busy, b \in DOMAIN busy :
          a # b /\ busy[a] # busy[b] /\ Contained(busy[a], busy[b])

----------------------------------------------------------------------------
(* Properties of split_at_midnight (SpecSplit) *)

SplitDone == pc = "split_done"

\* o is, window by window in the order of ws, a chain of segments from the
\* window's start to its end, each segment ending where the next one starts.
RECURSIVE Covers(_, _)
Covers(o, ws) ==
    IF ws = <<>> THEN o = <<>>
    ELSE \E m \in 1..Len(o) :
            /\ o[1][1] = Head(ws)[1]
            /\ o[m][2] = Head(ws)[2]
            /\ \A a \in 1..(m - 1) : o[a][2] = o[a + 1][1]
            /\ Covers(SubSeq(o, m + 1, Len(o)), Tail(ws))

\* C8: split_at_midnight keeps input order and coverage: each input interval
\* [s, e) yields one or more consecutive segments, the first starting at s,
\* the last ending at e, each ending where the next starts, before any
\* segment of the next input interval.
C8_OrderAndCoverage == SplitDone => Covers(out, raw_windows)

C8_Witness ==
    /\ SplitDone /\ Len(raw_windows) = 2 /\ Len(out) >= 5
    /\ zone.shift # 0

\* C9: every interval split_at_midnight returns lies within one local
\* calendar day: the local date of its start is the local date of the last
\* instant before its end.
C9_DayBounded ==
    SplitDone =>
        \A a \in DOMAIN out :
            DateNaive(zone, out[a][1]) = DateNaive(zone, out[a][2] - 1)

\* C10: split_at_midnight is idempotent: applied to its own output it
\* returns the same list of intervals, in the same order.
C10_Idempotent == SplitDone => split_at_midnight(zone, out) = out

C10_Witness ==
    /\ SplitDone /\ Len(raw_windows) >= 1 /\ Len(out) >= Len(raw_windows) + 2
    /\ zone.std # 0

\* The instants the next local midnight of the interval being split stands for.
NextMidnights == FromLocal(zone, NextMidnightNaive(cur_date))

IsPrefix(p, q) == Len(p) <= Len(q) /\ SubSeq(q, 1, Len(p)) = p

\* One step of the splitter when the while condition holds and the next local
\* midnight has no instant: the loop is left, nothing emitted is lost.
UnresolvedStep ==
    (pc = "split_loop" /\ cur_date < end_date /\ NextMidnights = {}) =>
        (pc' = "split_final" /\ out' = out /\ win_i' = win_i)

\* One step of the splitter when the next local midnight has two instants and
\* the earlier one lies before the interval's end: the split is at the earlier.
AmbiguousStep ==
    (/\ pc = "split_loop" /\ cur_date < end_date
     /\ Cardinality(NextMidnights) = 2
     /\ SetMin(NextMidnights) < raw_windows[win_i][2]) =>
        (/\ out' = Append(out, <<cur_start, SetMin(NextMidnights)>>)
         /\ cur_start' = SetMin(NextMidnights))

\* After the loop is left the emitted segments are kept and the next input
\* interval, if any, is entered.
ContinueStep ==
    pc = "split_final" =>
        (/\ IsPrefix(out, out')
         /\ win_i' = win_i + 1
         /\ pc' = IF win_i < Len(raw_windows) THEN "split_enter" ELSE "split_done")

\* C11: when the next local midnight of an interval has no instant,
\* split_at_midnight stops splitting that interval, keeps the segments already
\* emitted for it, takes a further step (no crash) and goes on with the
\* remaining input intervals; when the midnight is ambiguous it splits at the
\* earliest instant; at the return every input interval has been processed.
C11_UnresolvedMidnight ==
    /\ [][UnresolvedStep /\ AmbiguousStep /\ ContinueStep]_vars
    /\ [](pc \in {"split_enter", "split_loop", "split_final"} => ENABLED NextSplit)
    /\ [](SplitDone => win_i = Len(raw_windows) + 1)

\* The loop was left at a midnight without instant, after a segment of the
\* same interval had been emitted, with a further input interval to come.
C11_Witness ==
    /\ pc = "split_final" /\ cur_date < end_date /\ NextMidnights = {}
    /\ out # <<>> /\ out[Len(out)][2] = cur_start
    /\ cur_start > raw_windows[win_i][1]
    /\ win_i < Len(raw_windows)

----------------------------------------------------------------------------
(* Properties of filter_slots_by_time_of_day (SpecFilter) *)

FilterDone == pc = "filter_done"

\* 0 <= start_hour < end_hour <= 23 (the hours are unsigned).
ValidRange == start_hour < end_hour /\ end_hour <= 23

\* C12: when the hour range violates 0 <= start_hour < end_hour <= 23, that
\* is start_hour >= end_hour or an hour above 23, filter_slots_by_time_of_day
\* returns its input list unchanged: the same intervals in the same order.
C12_InvalidRangeNoOp ==
    (FilterDone /\ (start_hour >= end_hour \/ start_hour > 23 \/ end_hour > 23)) =>
        filtered = slots

\* An hour above 23 with the hours in order, and an interval that a filter
\* for these hours would have cut.
C12_Witness ==
    /\ FilterDone /\ start_hour < end_hour /\ end_hour > 23
    /\ start_hour > 0 /\ slots # <<>>
    /\ DateNaive(zone, slots[1][1]) < DateNaive(zone, slots[1][2] - 1)

\* C13: for a valid hour range every interval filter_slots_by_time_of_day
\* returns starts at a local time of day >= start_hour:00 and ends at a local
\* time <= end_hour:00 of the local date of its start.
C13_HoursContainment ==
    (FilterDone /\ ValidRange) =>
        \A a \in DOMAIN filtered :
            LET date == DateNaive(zone, filtered[a][1]) IN
            /\ LocalNaive(zone, filtered[a][1]) >= date * HoursPerDay + start_hour
            /\ LocalNaive(zone, filtered[a][2]) <= date * HoursPerDay + end_hour

\* The instants that hour:00 of a local date can stand for: those with that
\* local time; when the clock skips it, the instant the clock skips ahead.
HourInstants(z, date, hour) ==
    IF FromLocal(z, date * HoursPerDay + hour) # {}
    THEN FromLocal(z, date * HoursPerDay + hour)
    ELSE {z.at}

\* The lists the claimed filter may return for the intervals ss: each interval
\* cut to [dayStart, dayEnd) of the local date of its start, dropped when
\* nothing is left.
RECURSIVE Intersections(_, _, _, _)
Intersections(z, ss, sh, eh) ==
    IF ss = <<>> THEN {<<>>}
    ELSE LET date == DateNaive(z, Head(ss)[1])
             cuts == {<<Max(Head(ss)[1], ds), Min(Head(ss)[2], de)>> :
                         ds \in HourInstants(z, date, sh),
                         de \in HourInstants(z, date, eh)}
             heads == {IF c[1] < c[2] THEN <<c>> ELSE <<>> : c \in cuts}
         IN  {h \o r : h \in heads, r \in Intersections(z, Tail(ss), sh, eh)}

\* C14: for a valid hour range filter_slots_by_time_of_day maps each input
\* interval, in order, to at most one output [max(start, dayStart),
\* min(end, dayEnd)), dayStart and dayEnd being start_hour:00 and end_hour:00
\* of the local date of the interval's start, and to nothing when that
\* intersection is empty or inverted; every output lies inside its input.
C14_Intersection ==
    (FilterDone /\ ValidRange) =>
        filtered \in Intersections(zone, slots, start_hour, end_hour)

----------------------------------------------------------------------------
(* Properties of summarize_slots (SpecSummarize) *)

SumDone == pc = "sum_done"

Touch(p, q) == p[2] = q[1] \/ q[2] = p[1]

Overlap(p, q) == p[1] < q[2] /\ q[1] < p[2]

\* No two entries of one local day stand for intervals that touch or overlap.
NoAdjacentEntries ==
    \A a \in DOMAIN merged, b \in DOMAIN merged :
        (a # b /\ DateNaive(zone, merged[a][1]) = DateNaive(zone, merged[b][1])) =>
            (~Touch(merged[a], merged[b]) /\ ~Overlap(merged[a], merged[b]))

\* No two intervals of the argument overlap.
DisjointInput ==
    \A a \in DOMAIN sum_slots, b \in DOMAIN sum_slots :
        a # b => ~Overlap(sum_slots[a], sum_slots[b])

\* C15 (as claimed): for every input list summarize_slots never emits two
\* entries for the same local day whose intervals touch or overlap.
C15_NeverAdjacent == SumDone => NoAdjacentEntries

\* C15 (amended): for every input list whose intervals do not overlap one
\* another, summarize_slots never emits two entries for the same local day
\* whose intervals touch or overlap; every entry is the formatted merged
\* interval at its position.
C15_NeverAdjacentDisjoint ==
    (SumDone /\ DisjointInput) =>
        (NoAdjacentEntries /\ summary = FormatAll(zone, merged))

\* Two touching intervals of one local day, given out of order, came out as
\* one entry.
C15_Witness ==
    /\ SumDone /\ DisjointInput /\ Len(sum_slots) = 2 /\ Len(summary) = 1
    /\ sum_slots[2][2] = sum_slots[1][1]
    /\ merged = <<<<sum_slots[2][1], sum_slots[1][2]>>>>
    /\ zone.std # 0

\* C16: every entry summarize_slots emits stands for a merged interval that
\* lasts at least min_len; no shorter merged interval is emitted.
C16_MinimumLength ==
    /\ Len(summary) = Len(merged)
    /\ \A a \in DOMAIN merged :
          /\ summary[a] = FormatWindow(zone, merged[a])
          /\ (merged[a][2] - merged[a][1]) * MinutesPerHour >= min_len

\* An interval shorter than min_len was dropped, a longer one of the same
\* call emitted.
C16_Witness ==
    /\ SumDone /\ Len(sum_slots) = 2 /\ Len(summary) = 1
    /\ \E a \in DOMAIN sum_slots :
          (sum_slots[a][2] - sum_slots[a][1]) * MinutesPerHour < min_len
    /\ merged[1] \in {sum_slots[1], sum_slots[2]}

\* The entries are in ascending order of local date and, within a date, of start.
Ordered(z, m) ==
    \A a \in DOMAIN m, b \in DOMAIN m :
        a < b =>
            /\ DateNaive(z, m[a][1]) <= DateNaive(z, m[b][1])
            /\ DateNaive(z, m[a][1]) = DateNaive(z, m[b][1]) => m[a][1] <= m[b][1]

DistinctStarts(ss) ==
    \A a \in DOMAIN ss, b \in DOMAIN ss : a # b => ss[a][1] # ss[b][1]

\* C17: summarize_slots emits its entries grouped by the local date of the
\* interval start, dates ascending, and within a date in ascending start
\* order, whatever the order of the input list: every reordering of the input
\* gives entries in that order, and the same entries when no two input
\* intervals start at the same instant.
C17_DateThenStartOrder ==
    SumDone =>
        /\ Ordered(zone, merged)
        /\ summary = FormatAll(zone, merged)
        /\ \A r \in Reorderings(sum_slots) :
              /\ Ordered(zone, MergedIntervals(zone, r, min_len))
              /\ DistinctStarts(sum_slots) => summarize_slots(zone, r, min_len) = summary

\* Entries of two local dates, from an input given latest first.
C17_Witness ==
    /\ SumDone /\ Len(sum_slots) = 2 /\ Len(summary) = 2
    /\ sum_slots[1][1] > sum_slots[2][1]
    /\ DateNaive(zone, merged[1][1]) < DateNaive(zone, merged[2][1])
    /\ zone.shift # 0

----------------------------------------------------------------------------
(* Properties of the slot search and of the application (SpecApp) *)

\* The stages of the search t ran in order, each on the output of the one
\* before, over [now, now + 14 days] with t's buffer and hours.
StagesChained(t) ==
    /\ t.raw_windows = find_free_windows(t.busy, t.now, t.now + 14 * HoursPerDay,
                                         t.buffer_minutes \div 60)
    /\ t.split_windows = split_at_midnight(zone, t.raw_windows)
    /\ t.filtered_windows =
           filter_slots_by_time_of_day(zone, t.split_windows, t.start_hour, t.end_hour)
    /\ SubSeq(t.stages, 1, 3) =
           <<"find_free_windows", "split_at_midnight", "filter_slots_by_time_of_day">>

\* The search t ended with the entries of summarize_slots, minimum 30 minutes.
EntriesReturned(t) ==
    /\ t.stages = <<"find_free_windows", "split_at_midnight",
                    "filter_slots_by_time_of_day", "summarize_slots">>
    /\ t.sent = <<[type |-> "SlotsFetched",
                   slots |-> summarize_slots(zone, t.filtered_windows, 30)]>>

\* A step that starts a search hands it the application's settings.
SearchTakesSettings ==
    Len(fetch_tasks') > Len(fetch_tasks) =>
        LET t == fetch_tasks'[Len(fetch_tasks')] IN
        /\ t.buffer_minutes = calendar_buffer_minutes
        /\ t.start_hour = day_start_hour
        /\ t.end_hour = day_end_hour

\* A step of a search: when find_available_slots returns Ok the stages have
\* run in their order, when the task ends after that the entries have been
\* sent, and the settings and outputs of the search never change afterwards.
SearchStep ==
    /\ Len(fetch_tasks') >= Len(fetch_tasks)
    /\ \A a \in DOMAIN fetch_tasks :
          LET t == fetch_tasks[a]
              u == fetch_tasks'[a]
          IN  /\ <<u.buffer_minutes, u.start_hour, u.end_hour>> =
                     <<t.buffer_minutes, t.start_hour, t.end_hour>>
              /\ (t.result # "ok" /\ u.result = "ok") => StagesChained(u)
              /\ t.result = "ok" =>
                     /\ u.result = "ok"
                     /\ <<u.now, u.busy, u.raw_windows, u.split_windows, u.filtered_windows>> =
                            <<t.now, t.busy, t.raw_windows, t.split_windows, t.filtered_windows>>
              /\ (t.pc # "done" /\ u.pc = "done" /\ u.result = "ok") => EntriesReturned(u)
              /\ t.pc = "done" => u = t

\* C18: a slot search runs free-window computation, midnight split,
\* time-of-day filter and summarization in this order, each stage on the
\* output of the one before, over the window [now, now + 14 days] with the
\* caller's buffer and hours and a minimum slot length of 30 minutes, and
\* ends with the list of display entries.
C18_SearchPipeline == [][SearchTakesSettings /\ SearchStep]_vars

\* A finished search with a buffer of one hour, a busy period, and more
\* entries than days would give without it.
C18_Witness ==
    \E a \in DOMAIN fetch_tasks :
        /\ fetch_tasks[a].pc = "done" /\ fetch_tasks[a].result = "ok"
        /\ fetch_tasks[a].buffer_minutes = 60 /\ fetch_tasks[a].busy # <<>>
        /\ fetch_tasks[a].start_hour < fetch_tasks[a].end_hour
        /\ fetch_tasks[a].end_hour <= 23
        /\ Len(fetch_tasks[a].split_windows) > Len(fetch_tasks[a].raw_windows)
        /\ Len(fetch_tasks[a].raw_windows) = 2
        /\ Len(fetch_tasks[a].sent[1].slots) >= 14

\* A search that failed ran no stage and sends one failure message, no more.
FailedSearch(t) ==
    /\ t.stages = <<>> /\ t.raw_windows = <<>> /\ t.split_windows = <<>>
    /\ t.filtered_windows = <<>>
    /\ t.pc = "reply" => t.sent = <<>>
    /\ t.pc = "done" =>
           t.sent = <<[type |-> "SlotsFetchFailed",
                       text |-> <<"Failed to fetch slots: ", t.error>>]>>

\* The step of update that receives a SlotsFetchFailed message.
FailureShown ==
    (receiver # <<>> /\ receiver' = Tail(receiver)
        /\ Head(receiver).type = "SlotsFetchFailed") =>
        /\ available_slots' = <<>>
        /\ is_fetching_slots' = FALSE
        /\ status_message' = Head(receiver).text

\* C19: if the primary calendar lookup or the busy period fetch fails, the
\* slot search ends with a single failure and no partial result: no stage
\* runs, exactly one SlotsFetchFailed message is sent, and once update has
\* received it the slot list is empty, is_fetching_slots is false and the
\* status message is the error message.
C19_FetchFailure ==
    /\ [](\A a \in DOMAIN fetch_tasks :
             /\ Len(fetch_tasks[a].sent) <= 1
             /\ fetch_tasks[a].result = "err" => FailedSearch(fetch_tasks[a]))
    /\ [][FailureShown]_vars

\* The free/busy query failed and update has received the failure message.
C19_Witness ==
    /\ Len(fetch_tasks) = 1 /\ fetch_tasks[1].pc = "done"
    /\ fetch_tasks[1].error = "freebusy query failed"
    /\ receiver = <<>> /\ ~is_fetching_slots /\ available_slots = <<>>
    /\ status_message = <<"Failed to fetch slots: ", "freebusy query failed">>

\* C20: the hours the application hands to a slot search always satisfy
\* day_start_hour in 0..23, day_end_hour in 1..23 and
\* day_start_hour < day_end_hour, after any edits of the two hour fields and
\* after loading a saved state.
C20_HoursInRange ==
    \A a \in DOMAIN fetch_tasks :
        /\ fetch_tasks[a].start_hour \in 0..23
        /\ fetch_tasks[a].end_hour \in 1..23
        /\ fetch_tasks[a].start_hour < fetch_tasks[a].end_hour

----------------------------------------------------------------------------
(* split_at_midnight: termination (SpecSplit) *)

\* The end of the interval being split.
CurEnd == raw_windows[win_i][2]

\* A pass of the while loop either leaves the loop or moves cur_start to a
\* later instant before the interval's end, on a later local date.
LoopAdvances ==
    pc = "split_loop" =>
        \/ pc' = "split_final" /\ out' = out /\ cur_start' = cur_start
        \/ /\ pc' = "split_loop"
           /\ cur_start < cur_start' /\ cur_start' < CurEnd
           /\ cur_date < cur_date'
           /\ out' = Append(out, <<cur_start, cur_start'>>)

\* A measure of the work left: intervals still to split, then the instants
\* between cur_start and the end of the current interval, then the position.
SplitWeight == raw_windows[Len(raw_windows)][2] + 4

SplitMeasure ==
    IF pc = "split_done" THEN 0
    ELSE (Len(raw_windows) - win_i) * SplitWeight +
         (CASE pc = "split_enter" -> SplitWeight - 1
            [] pc = "split_loop" -> 2 + (CurEnd - cur_start)
            [] pc = "split_final" -> 1)

\* The segments emitted so far for input interval i.
SegmentsOf(i) ==
    {a \in DOMAIN out : raw_windows[i][1] <= out[a][1] /\ out[a][2] <= raw_windows[i][2]}

\* The number of local dates interval i touches.
DatesTouched(i) ==
    DateNaive(zone, raw_windows[i][2] - 1) - DateNaive(zone, raw_windows[i][1]) + 1

OneSegmentPerDate ==
    \A i \in DOMAIN raw_windows :
        /\ Cardinality(SegmentsOf(i)) <= DatesTouched(i)
        /\ \A a \in SegmentsOf(i), b \in SegmentsOf(i) :
               a # b => DateNaive(zone, out[a][1]) # DateNaive(zone, out[b][1])

\* C22: split_at_midnight terminates on every finite input: a pass of the
\* loop either exits or moves the segment start strictly forward to an instant
\* before the interval's end, every step lowers a non-negative measure, a step
\* is possible until the function returns, and an interval yields at most one
\* segment per local date it touches.
C22_SplitTerminates ==
    /\ [][LoopAdvances /\ SplitMeasure' < SplitMeasure]_vars
    /\ [](SplitMeasure >= 0)
    /\ [](~SplitDone => ENABLED NextSplit)
    /\ [](OneSegmentPerDate)

\* An interval over three local dates in a zone whose clocks change has been
\* split into three segments and the function has returned.
C22_Witness ==
    /\ SplitDone /\ zone.shift # 0
    /\ \E i \in DOMAIN raw_windows :
           DatesTouched(i) = 3 /\ Cardinality(SegmentsOf(i)) = 3

----------------------------------------------------------------------------
(* split_at_midnight followed by filter_slots_by_time_of_day (SpecSplit) *)

\* Valid hour ranges the composition is checked with.
ComposedHours == {<<0, 2>>, <<2, 9>>, <<9, 17>>, <<0, 23>>}

\* The instants (whole hours) of the intervals of a list.
InstantsOf(ivs) == UNION {ivs[a][1]..(ivs[a][2] - 1) : a \in DOMAIN ivs}

\* The local time of day of instant t lies in [sh:00, eh:00).
InHours(z, t, sh, eh) ==
    LET h == LocalNaive(z, t) % HoursPerDay IN sh <= h /\ h < eh

\* The pairs (interval, local date) with an instant of the interval on that
\* date within the hours.
DayParts(z, ws, sh, eh) ==
    {<<i, DateNaive(z, t)>> : <<i, t>> \in
        {p \in (DOMAIN ws) \X InstantsOf(ws) :
            /\ ws[p[1]][1] <= p[2] /\ p[2] < ws[p[1]][2]
            /\ InHours(z, p[2], sh, eh)}}

SplitThenFilter(sh, eh) == filter_slots_by_time_of_day(zone, out, sh, eh)

\* C23: split_at_midnight followed by filter_slots_by_time_of_day with a
\* valid hour range is complete and exact: the output covers exactly the
\* instants of the free intervals whose local time of day lies in
\* [start_hour:00, end_hour:00), with one output interval per interval and
\* local date that has such an instant.
C23_SplitThenFilterExact ==
    SplitDone =>
        \A hours \in ComposedHours :
            LET f == SplitThenFilter(hours[1], hours[2]) IN
            /\ InstantsOf(f) =
                   {t \in InstantsOf(raw_windows) : InHours(zone, t, hours[1], hours[2])}
            /\ Len(f) = Cardinality(DayParts(zone, raw_windows, hours[1], hours[2]))

\* The same composition in the zones whose offset never changes.
C23_FixedOffsetExact == (SplitDone /\ zone.shift = 0) => C23_SplitThenFilterExact

----------------------------------------------------------------------------
(* summarize_slots: runs and dates (SpecSummarize) *)

\* The argument's intervals that start on local date d.
StartingOn(d) ==
    {sum_slots[a] : a \in {b \in DOMAIN sum_slots : DateNaive(zone, sum_slots[b][1]) = d}}

InputDates == {DateNaive(zone, sum_slots[a][1]) : a \in DOMAIN sum_slots}

\* Where the run of touching intervals of D that begins at instant s ends.
RECURSIVE RunEnd(_, _)
RunEnd(D, s) ==
    IF \E iv \in D : iv[1] = s
    THEN RunEnd(D, (CHOOSE iv \in D : iv[1] = s)[2])
    ELSE s

\* The maximal runs of touching intervals of D, each as one interval.
Runs(D) ==
    {<<iv[1], RunEnd(D, iv[1])>> : iv \in {jv \in D : \A kv \in D : kv[2] # jv[1]}}

\* The runs of all local dates that last at least min_len.
LongRuns ==
    UNION {{r \in Runs(StartingOn(d)) : (r[2] - r[1]) * MinutesPerHour >= min_len} :
           d \in InputDates}

\* C21: the minimum-length test is applied to merged intervals: among
\* non-overlapping intervals, each maximal run of touching intervals of one
\* local date is emitted as one entry exactly when its total duration is at
\* least min_len, whatever the lengths of its pieces.
C21_LengthOfMergedRun ==
    (SumDone /\ DisjointInput) =>
        /\ {merged[a] : a \in DOMAIN merged} = LongRuns
        /\ Len(merged) = Cardinality(LongRuns)
        /\ Len(summary) = Len(merged)

\* Two touching pieces of one local date, each shorter than min_len, came out
\* as one entry.
C21_Witness ==
    /\ SumDone /\ Len(sum_slots) = 2 /\ Len(merged) = 1 /\ Len(summary) = 1
    /\ Touch(sum_slots[1], sum_slots[2])
    /\ DateNaive(zone, sum_slots[1][1]) = DateNaive(zone, sum_slots[2][1])
    /\ \A a \in DOMAIN sum_slots :
           (sum_slots[a][2] - sum_slots[a][1]) * MinutesPerHour < min_len
    /\ (merged[1][2] - merged[1][1]) * MinutesPerHour >= min_len

\* The argument's intervals that start on local date d, in argument order.
DaySlots(d) == SelectSeq(sum_slots, LAMBDA iv : DateNaive(zone, iv[1]) = d)

RECURSIVE PerDayMerged(_)
PerDayMerged(days) ==
    IF days = <<>> THEN <<>>
    ELSE MergedIntervals(zone, DaySlots(Head(days)), min_len) \o PerDayMerged(Tail(days))

\* C25: intervals whose starts fall on different local dates are never
\* merged, even when one ends exactly where the other starts: every merged
\* interval starts and ends at bounds of argument intervals that start on its
\* own local date, and the result is the concatenation, in date order, of the
\* results for each date's intervals taken alone.
C25_NoMergeAcrossDates ==
    SumDone =>
        /\ \A a \in DOMAIN merged :
               LET D == StartingOn(DateNaive(zone, merged[a][1]))
               IN  /\ \E iv \in D : iv[1] = merged[a][1]
                   /\ \E iv \in D : iv[2] = merged[a][2]
        /\ merged = PerDayMerged(SortedDays(InputDates))

\* Two intervals meeting at a local midnight, each long enough, came out as
\* two entries.
C25_Witness ==
    /\ SumDone /\ Len(sum_slots) = 2 /\ Len(merged) = 2 /\ Len(summary) = 2
    /\ Touch(sum_slots[1], sum_slots[2])
    /\ DateNaive(zone, sum_slots[1][1]) # DateNaive(zone, sum_slots[2][1])

----------------------------------------------------------------------------
(* The slot search: busy time never offered (SpecApp) *)

\* Interval w has an instant within period p extended by buf hours before
\* its start and after its end.
HitsPadded(w, p, buf) ==
    w[1] < Unwrap(p.end) + buf /\ Unwrap(p.start) - buf < w[2]

\* No interval the search t hands to summarize_slots meets a padded period.
AvoidsBusy(t) ==
    \A a \in DOMAIN t.filtered_windows, b \in DOMAIN t.busy :
        (IsSome(t.busy[b].start) /\ IsSome(t.busy[b].end)) =>
            ~HitsPadded(t.filtered_windows[a], t.busy[b], t.buffer_minutes \div 60)

\* The step on which find_available_slots returns Ok, and the step on which
\* the task summarizes what it returned.
SafeStep ==
    \A a \in DOMAIN fetch_tasks :
        LET t == fetch_tasks[a]
            u == fetch_tasks'[a]
        IN  /\ (t.result # "ok" /\ u.result = "ok") => AvoidsBusy(u)
            /\ (t.pc # "done" /\ u.pc = "done" /\ u.result = "ok") =>
                   /\ u.filtered_windows = t.filtered_windows
                   /\ u.busy = t.busy
                   /\ u.buffer_minutes = t.buffer_minutes
                   /\ u.sent = <<SlotsFetched(summarize_slots(zone, t.filtered_windows,
                                                               SummarizeMinutes))>>

\* C24: for busy periods with both bounds present, no interval that reaches
\* summarization contains an instant of a busy period extended by the buffer
\* on both sides, whether the hour range is valid or not.
C24_NoBusyInstantOffered == [][SafeStep]_vars

\* A search with a one-hour buffer and an invalid hour range has returned an
\* interval that starts exactly where the padded busy period ends.
C24_Witness ==
    \E a \in DOMAIN fetch_tasks :
        LET t == fetch_tasks[a] IN
        /\ t.pc = "done" /\ t.result = "ok" /\ t.buffer_minutes = 60
        /\ InvalidHours(t.start_hour, t.end_hour)
        /\ \E b \in DOMAIN t.busy, c \in DOMAIN t.filtered_windows :
               t.filtered_windows[c][1] = Unwrap(t.busy[b].end) + 1

\* The same for a valid hour range that includes the hours around the period.
C24_ValidHoursReached ==
    \E a \in DOMAIN fetch_tasks :
        LET t == fetch_tasks[a] IN
        /\ t.pc = "done" /\ t.result = "ok" /\ ~InvalidHours(t.start_hour, t.end_hour)
        /\ \E b \in DOMAIN t.busy, c \in DOMAIN t.filtered_windows :
               t.filtered_windows[c][1] = Unwrap(t.busy[b].end)

----------------------------------------------------------------------------
(* MyApp: one slot search at a time (SpecApp) *)

FetchReplies == {"SlotsFetched", "SlotsFetchFailed"}

\* The searches still running, and the replies update has not yet received.
RunningFetches == {a \in DOMAIN fetch_tasks : fetch_tasks[a].pc # "done"}
PendingReplies == {b \in DOMAIN receiver : receiver[b].type \in FetchReplies}
OutstandingFetches == Cardinality(RunningFetches) + Cardinality(PendingReplies)

\* A step that starts a search: no search was under way, a calendar is
\* connected, and the search is marked as under way.
FetchStart ==
    Len(fetch_tasks') > Len(fetch_tasks) =>
        /\ Len(fetch_tasks') = Len(fetch_tasks) + 1
        /\ ~is_fetching_slots /\ is_fetching_slots'
        /\ calendar_hub'
        /\ OutstandingFetches = 0

\* is_fetching_slots goes back to false only on a step of update that
\* receives the reply of the search.
FetchEnd ==
    (is_fetching_slots /\ ~is_fetching_slots') =>
        /\ receiver # <<>> /\ Head(receiver).type \in FetchReplies
        /\ receiver' = Tail(receiver)

\* C26: at most one slot search is outstanding at any time and a search only
\* runs with a connected calendar: a search is started only when
\* is_fetching_slots is false and calendar_hub is Some, and is_fetching_slots
\* stays true from then until update has processed the search's SlotsFetched
\* or SlotsFetchFailed message, under every interleaving of clicks, connection
\* messages and task completions.
C26_OneFetchAtATime ==
    /\ [](OutstandingFetches <= 1)
    /\ [](OutstandingFetches = 1 => (is_fetching_slots /\ calendar_hub))
    /\ [][FetchStart /\ FetchEnd]_vars

\* A search has sent its reply, update has not yet received it, and the
\* connect button was clicked in between.
C26_Witness ==
    /\ is_fetching_slots /\ RunningFetches = {} /\ Cardinality(PendingReplies) = 1
    /\ status_message = <<"Calendar already connected.">>

----------------------------------------------------------------------------
(* MyApp: background operations end (SpecLive) *)

\* The messages of the given types among those of a sequence.
OfTypes(msgs, types) == SelectSeq(msgs, LAMBDA m : m.type \in types)

ConnectReplies == {"CalendarConnected", "CalendarConnectionFailed"}

\* A connection task that ends sends one message, of one of its two kinds.
ConnectEnds ==
    connect_tasks' < connect_tasks =>
        /\ connect_tasks' = connect_tasks - 1
        /\ \E m \in {receiver'[Len(receiver')]} :
              m.type \in ConnectReplies /\ receiver' = Append(receiver, m)

\* What a task has sent goes to the channel on the step it is sent, once.
TasksSend ==
    /\ \A a \in DOMAIN fetch_tasks :
          /\ Len(fetch_tasks'[a].sent) >= Len(fetch_tasks[a].sent)
          /\ Len(fetch_tasks'[a].sent) > Len(fetch_tasks[a].sent) =>
                receiver' = receiver \o SubSeq(fetch_tasks'[a].sent,
                                                Len(fetch_tasks[a].sent) + 1,
                                                Len(fetch_tasks'[a].sent))
    /\ \A a \in DOMAIN send_tasks :
          /\ Len(send_tasks'[a].sent) >= Len(send_tasks[a].sent)
          /\ Len(send_tasks'[a].sent) > Len(send_tasks[a].sent) =>
                receiver' = receiver \o SubSeq(send_tasks'[a].sent,
                                                Len(send_tasks[a].sent) + 1,
                                                Len(send_tasks'[a].sent))

\* A task has sent no terminal message while it runs and one when it has ended.
OneTerminalMessage ==
    /\ \A a \in DOMAIN fetch_tasks :
          Len(OfTypes(fetch_tasks[a].sent, FetchReplies)) =
              IF fetch_tasks[a].pc = "done" THEN 1 ELSE 0
    /\ \A a \in DOMAIN send_tasks :
          Len(OfTypes(send_tasks[a].sent, {"FinishedSending"})) =
              IF send_tasks[a].pc = "done" THEN 1 ELSE 0

RECURSIVE SeqSum(_)
SeqSum(ns) == IF ns = <<>> THEN 0 ELSE Head(ns) + SeqSum(Tail(ns))

\* The steps a task has left, a step that sends a message counted twice.
FetchLeft(t) ==
    CASE t.pc = "lookup" -> 5 [] t.pc = "busy" -> 4 [] t.pc = "compute" -> 3
      [] t.pc = "reply" -> 2 [] t.pc = "done" -> 0

SendLeft(t) ==
    CASE t.pc = "template" -> 2 * Len(t.recipients) + 3
      [] t.pc = "send" -> 2 * (Len(t.recipients) - t.next + 1) + 2
      [] t.pc = "finish" -> 2
      [] t.pc = "done" -> 0

LoaderLeft == CASE loader = "config" -> 4 [] loader = "done" -> 0 [] OTHER -> 2

\* What receiving a message costs: CalendarConnected starts a slot search.
MessageWork(m) == IF m.type = "CalendarConnected" THEN 1 + FetchLeft([pc |-> "lookup"]) ELSE 1

\* The work the loader, the tasks and update have left.
WorkLeft ==
    LoaderLeft + connect_tasks * (1 + MessageWork(CalendarConnected))
    + SeqSum([a \in DOMAIN fetch_tasks |-> FetchLeft(fetch_tasks[a])])
    + SeqSum([a \in DOMAIN send_tasks |-> SendLeft(send_tasks[a])])
    + SeqSum([a \in DOMAIN receiver |-> MessageWork(receiver[a])])

\* Every step other than a click lowers the work left.
BackgroundStepLowers == ui_events' = ui_events => WorkLeft' < WorkLeft

\* While a flag is set its task can take a step or update can: the task is
\* running or a message waits in the channel.
FlagHasWork ==
    /\ is_connecting_calendar => (connect_tasks > 0 \/ receiver # <<>>)
    /\ is_fetching_slots => (RunningFetches # {} \/ receiver # <<>>)
    /\ is_sending_email =>
           ((\E a \in DOMAIN send_tasks : send_tasks[a].pc # "done") \/ receiver # <<>>)

\* C27: every started background operation sends exactly one terminal message
\* (connect: CalendarConnected or CalendarConnectionFailed; fetch: SlotsFetched
\* or SlotsFetchFailed; send: FinishedSending), and with the tasks running to
\* their end and update draining the channel each of is_connecting_calendar,
\* is_fetching_slots and is_sending_email that is true becomes false again:
\* the steps of the tasks and of update lower a non-negative amount of work
\* left, and as long as a flag is set such a step is possible.
C27_OperationsEnd ==
    /\ [][ConnectEnds /\ TasksSend /\ BackgroundStepLowers]_vars
    /\ [](OneTerminalMessage)
    /\ [](WorkLeft >= 0)
    /\ [](FlagHasWork)

\* A connection, the slot search after it and a sending have all ended and
\* their messages have been received.
C27_Witness ==
    /\ calendar_hub /\ fetch_tasks # <<>> /\ send_tasks # <<>>
    /\ \A a \in DOMAIN fetch_tasks : fetch_tasks[a].pc = "done"
    /\ \A a \in DOMAIN send_tasks : send_tasks[a].pc = "done"
    /\ receiver = <<>>
    /\ ~is_connecting_calendar /\ ~is_fetching_slots /\ ~is_sending_email

----------------------------------------------------------------------------
(* MyApp: the startup loader (SpecMailFair) *)

Count(msgs, type) == Len(OfTypes(msgs, {type}))

Flag(b) == IF b THEN 1 ELSE 0

\* The loader has sent one ConfigLoaded once it is past the configuration and
\* one TemplateLoaded once it has ended, never more; a message is waiting in
\* the channel or has been processed.
LoaderMessages ==
    /\ Count(receiver, "ConfigLoaded") + Flag(config_loaded) = Flag(loader # "config")
    /\ Count(receiver, "TemplateLoaded") + Flag(template_loaded) = Flag(loader = "done")
    /\ template_loaded => config_loaded

\* A step of the loader sends the message of its position: ConfigLoaded
\* first, TemplateLoaded second.
LoaderOrder ==
    loader' # loader =>
        /\ Len(receiver') = Len(receiver) + 1
        /\ receiver'[Len(receiver')].type =
               IF loader = "config" THEN "ConfigLoaded" ELSE "TemplateLoaded"
        /\ loader = "config" => loader' \in {"template", "no_template"}
        /\ loader # "config" => loader' = "done"

FlagsStay ==
    /\ config_loaded => config_loaded'
    /\ template_loaded => template_loaded'

\* C29: the loader thread sends exactly one ConfigLoaded message followed by
\* exactly one TemplateLoaded message in every outcome, so config_loaded and
\* template_loaded both become true, and once true never return to false.
C29_LoaderCompletes ==
    /\ [](LoaderMessages)
    /\ [][LoaderOrder /\ FlagsStay]_vars
    /\ <>[](config_loaded /\ template_loaded)

\* Both flags are set after the configuration could not be loaded.
C29_Witness ==
    /\ config_loaded /\ template_loaded /\ loader = "done"
    /\ template_path = "email_template.txt"
    /\ ~state_loaded_from_file
    /\ status_message[1] = "ERROR loading initial config: "

----------------------------------------------------------------------------
(* MyApp: the send task (SpecMail) *)

\* What a send task has sent so far: EmailSent or EmailFailed messages, then,
\* when it has ended, one FinishedSending whose counts add up to the number of
\* recipients the task took with it.
SendReport(t) ==
    LET n == Len(t.sent)
        body == IF t.pc = "done" THEN SubSeq(t.sent, 1, n - 1) ELSE t.sent
    IN  /\ \A b \in DOMAIN body : body[b].type \in {"EmailSent", "EmailFailed"}
        /\ t.pc = "done" =>
              /\ n >= 1
              /\ t.sent[n].type = "FinishedSending"
              /\ t.sent[n].success + t.sent[n].failed = Len(t.recipients)
              /\ t.sent[n].success = Len(OfTypes(body, {"EmailSent"}))
        /\ (t.pc = "done" /\ ~TemplateParses(t.email_subject, t.email_body)) =>
              /\ n = 2 /\ t.sent[1].email = "All Recipients"
              /\ t.sent[2] = FinishedSending(0, Len(t.recipients))

\* A step that starts a send task: none was under way, and the task takes the
\* recipient list as it is at that moment. A task's copy never changes.
SendStart ==
    /\ Len(send_tasks') >= Len(send_tasks)
    /\ Len(send_tasks') > Len(send_tasks) =>
          /\ Len(send_tasks') = Len(send_tasks) + 1
          /\ ~is_sending_email /\ is_sending_email'
          /\ send_tasks'[Len(send_tasks')].recipients = recipients
          /\ \A a \in DOMAIN send_tasks : send_tasks[a].pc = "done"
    /\ \A a \in DOMAIN send_tasks : send_tasks'[a].recipients = send_tasks[a].recipients

\* C28: for each send task FinishedSending(success, failed) is enqueued after
\* every EmailSent and EmailFailed message of that task, success + failed is
\* the number of recipients copied when the sending started, also when the
\* template cannot be built (success = 0, failed = that number), and no second
\* send task starts while is_sending_email is true.
C28_SendReport ==
    /\ [](\A a \in DOMAIN send_tasks : SendReport(send_tasks[a]))
    /\ [][SendStart /\ TasksSend]_vars

\* A task has ended with one delivery and one failure, and a recipient was
\* added to the list after it had started.
C28_Witness ==
    \E a \in DOMAIN send_tasks :
        LET t == send_tasks[a] IN
        /\ t.pc = "done" /\ Len(t.recipients) = 2
        /\ t.sent[Len(t.sent)] = FinishedSending(1, 1)
        /\ Len(recipients) > Len(t.recipients)

\* A task whose template could not be built has ended.
C28_TemplateFailureReached ==
    \E a \in DOMAIN send_tasks :
        /\ send_tasks[a].pc = "done"
        /\ ~TemplateParses(send_tasks[a].email_subject, send_tasks[a].email_body)
        /\ Len(send_tasks[a].recipients) = 2

----------------------------------------------------------------------------
(* MyApp: the loader's messages and a loaded state (SpecMail) *)

\* The fields a saved state holds and the loader's files could replace.
MailFields ==
    <<smtp_host, smtp_port_str, smtp_user, smtp_password, from_email, sender_name,
      recipients, email_subject, email_body>>

\* All fields but template_path, config_loaded, template_loaded and status_message.
OtherFields ==
    <<calendar_hub, is_connecting_calendar, is_fetching_slots, available_slots,
      calendar_buffer_minutes, day_start_hour, day_end_hour, state_loaded_from_file,
      is_sending_email, connect_tasks, fetch_tasks, send_tasks>>

\* The step of update that receives a ConfigLoaded or TemplateLoaded message.
LoaderMessageReceived ==
    /\ receiver # <<>> /\ receiver' = Tail(receiver)
    /\ Head(receiver).type \in {"ConfigLoaded", "TemplateLoaded"}

KeepsLoadedState ==
    (LoaderMessageReceived /\ state_loaded_from_file) =>
        UNCHANGED <<MailFields, OtherFields>>

TakesConfigAndTemplate ==
    (LoaderMessageReceived /\ ~state_loaded_from_file /\ Head(receiver).ok) =>
        LET msg == Head(receiver) IN
        /\ UNCHANGED OtherFields
        /\ msg.type = "ConfigLoaded" =>
              /\ <<smtp_host', smtp_port_str', smtp_user', smtp_password', from_email'>> =
                     <<msg.config.smtp.host, msg.config.smtp.port, msg.config.smtp.user,
                       msg.config.smtp.password, msg.config.smtp.from_email>>
              /\ sender_name' = msg.config.sender.name
              /\ recipients' = msg.config.recipients
              /\ UNCHANGED <<email_subject, email_body>>
        /\ msg.type = "TemplateLoaded" =>
              /\ email_subject' = msg.subject /\ email_body' = msg.body
              /\ UNCHANGED <<smtp_host, smtp_port_str, smtp_user, smtp_password, from_email,
                             sender_name, recipients>>

\* C30: when a saved state was loaded at startup, processing ConfigLoaded and
\* TemplateLoaded leaves the SMTP settings, the sender name, the recipients,
\* the subject and the body unchanged; only template_path, config_loaded,
\* template_loaded and the status message may change. When no saved state was
\* loaded, those fields are overwritten from the configuration and template.
C30_LoadedStateKept == [][KeepsLoadedState /\ TakesConfigAndTemplate]_vars

\* A loaded state has received both messages: its fields are the saved ones,
\* the template path is the configuration's.
C30_Witness ==
    /\ state_loaded_from_file /\ config_loaded /\ template_loaded
    /\ smtp_host = "smtp.saved.org" /\ email_subject = "Saved subject"
    /\ template_path = "config_template.txt"
    /\ status_message = <<"Loaded previous session. Initial config/template processed.">>

\* Without a loaded state both messages have replaced the fields.
C30_OverwriteReached ==
    /\ ~state_loaded_from_file /\ config_loaded /\ template_loaded
    /\ smtp_host = "smtp.config.org" /\ email_subject = "File subject"
    /\ Len(recipients) = MaxRecipients
    /\ status_message = <<"Applied defaults from config and template.">>

----------------------------------------------------------------------------
(* Properties of all three functions (Spec) *)

NonEmptyIntervals(s) == \A a \in DOMAIN s : s[a][1] < s[a][2]

\* C5: every interval emitted by find_free_windows, by split_at_midnight
\* (given inputs with start < end) and by filter_slots_by_time_of_day with a
\* valid hour range has start strictly before end, also when a buffered busy
\* period overhangs the window.
C5_StartBeforeEnd ==
    /\ NonEmptyIntervals(windows)
    /\ NonEmptyIntervals(out)
    /\ ~InvalidHours(start_hour, end_hour) => NonEmptyIntervals(filtered)

C5_Witness ==
    /\ FreeDone /\ buffer > 0 /\ windows # <<>>
    /\ \E a \in DOMAIN busy :
          /\ Complete(busy[a])
          /\ Unwrap(busy[a].start) - buffer < window_start
          /\ Unwrap(busy[a].start) >= window_start
    /\ \E a \in DOMAIN busy :
          /\ Complete(busy[a])
          /\ Unwrap(busy[a].end) + buffer > window_end
          /\ Unwrap(busy[a].end) <= window_end

====
